---- MODULE Spec2Model ----
(***************************************************************************)
(* Product image manager and file validation of the product catalog UI.    *)
(*                                                                         *)
(*   - lib/fileValidation (createFileSignature, validateFiles)             *)
(*   - components/product/ProductImageManager (handleFileSelect,           *)
(*     setFeaturedImage, removeImage)                                      *)
(*                                                                         *)
(* JavaScript strings are modelled as sequences of one-character strings,  *)
(* so that startsWith, split and template concatenation are computed and   *)
(* not assumed.  JavaScript objects that are mutated in place carry an     *)
(* object identity (field obj), so that aliasing between the array a       *)
(* suspended handler captured and the current array is visible.            *)
(***************************************************************************)
EXTENDS Integers, Sequences, FiniteSets, Bags, TLC

VARIABLES
    images,              \* the images prop (the parent's state): array of MediaItem
    processingQueueRef,  \* processingQueueRef.current
    isProcessing,        \* the isProcessing state
    inflight,            \* handleFileSelect calls suspended at their await
    toasts,              \* the notifications the last handler step emitted
    imageToRecrop,       \* the imageToRecrop state: <<>> for null, <<item>> for a MediaItem
    showCropper,         \* the showCropper state
    validation,          \* the frame of a validateFiles call: inputs, loop position, result
    second,              \* the frame of a validateFiles call made beside the first
    comparison,          \* the frame of an areFilesIdentical call: arguments and result
    hashing,             \* the frames of generateFileHash calls: file, outcome of the digest, result;
                         \* in the manager of part_001, those of the last validation as they settled
    urlCache,            \* the module-level urlCache map of part_001: id -> url
    revoked,             \* the bag of the urls passed to URL.revokeObjectURL
    blobCount,           \* the number of urls URL.createObjectURL has handed out
    fetching,            \* the fetching state of EditProductPage
    location,            \* the route: the edit page, or where navigate() led
    database,            \* the products row and the product_images rows of the product
    imagesToDelete       \* the imagesToDelete state of EditProductPage

vars ==
    <<images, processingQueueRef, isProcessing, inflight, toasts,
      imageToRecrop, showCropper, validation, second, comparison, hashing,
      urlCache, revoked, blobCount,
      fetching, location, database, imagesToDelete>>

managerVars == <<images, processingQueueRef, isProcessing, inflight, toasts>>

cropVars == <<imageToRecrop, showCropper>>

validationVars == <<validation, second, comparison, hashing>>

urlVars == <<urlCache, revoked, blobCount>>

pageVars == <<fetching, location, database, imagesToDelete>>

productVars == <<fetching, location, database>>

----------------------------------------------------------------------------
(* Bounds of the model *)

\* longest batch handed to validateFiles in the validator specification
MaxBatch == 3

\* the maxImages prop (10 by default); a small instance so that the capacity
\* paths are reached
maxImages == 2

\* most handleFileSelect calls suspended at once that the model can hold;
\* the single-flight guard keeps it at one, the cap is for broken guards
MaxInflight == 2

----------------------------------------------------------------------------
(* Strings *)

Range(s) == {s[i] : i \in DOMAIN s}

DigitChars == <<"0", "1", "2", "3", "4", "5", "6", "7", "8", "9">>

\* String(n) for a non-negative integer, as a template literal prints it
RECURSIVE Dec(_)
Dec(n) ==
    IF n < 10 THEN <<DigitChars[n + 1]>>
    ELSE Dec(n \div 10) \o <<DigitChars[(n % 10) + 1]>>

\* s.startsWith(p)
StartsWith(s, p) ==
    /\ Len(p) <= Len(s)
    /\ \A i \in 1..Len(p) : s[i] = p[i]

\* s.split('/')[0]: the part of s before the first '/', all of s without one
SplitFirst(s) ==
    IF \E i \in 1..Len(s) : s[i] = "/"
    THEN LET k == CHOOSE i \in 1..Len(s) :
                      /\ s[i] = "/"
                      /\ \A j \in 1..(i - 1) : s[j] # "/"
         IN SubSeq(s, 1, k - 1)
    ELSE s

\* a slice that keeps one element more than asked for
Slice0OneMore(s, end) ==
    SubSeq(s, 1, IF end + 1 > Len(s) THEN Len(s) ELSE end + 1)

\* a slice that keeps the whole array
Slice0All(s, end) == s

\* array.slice(0, end) of JavaScript: a negative end counts from the back
Slice0(s, end) ==
    LET e == IF end < 0 THEN (IF Len(s) + end < 0 THEN 0 ELSE Len(s) + end)
             ELSE (IF end > Len(s) THEN Len(s) ELSE end)
    IN SubSeq(s, 1, e)

----------------------------------------------------------------------------
(* Media types and files *)

ImagePng == <<"i", "m", "a", "g", "e", "/", "p", "n", "g">>
ImageJpeg == <<"i", "m", "a", "g", "e", "/", "j", "p", "e", "g">>
ImageWebp == <<"i", "m", "a", "g", "e", "/", "w", "e", "b", "p">>
ImageJpg == <<"i", "m", "a", "g", "e", "/", "j", "p", "g">>
ImageGif == <<"i", "m", "a", "g", "e", "/", "g", "i", "f">>
VideoMp4 == <<"v", "i", "d", "e", "o", "/", "m", "p", "4">>
ImagesPng == <<"i", "m", "a", "g", "e", "s", "/", "p", "n", "g">>

\* the default of the allowedTypes option
DefaultAllowedTypes == <<ImagePng, ImageJpeg, ImageWebp, ImageJpg>>

\* the default of the maxFileSize option, in MiB
DefaultMaxFileSize == 5

Mebibyte == 1024 * 1024

File(name, size, type, lastModified, content) ==
    [name |-> name, size |-> size, type |-> type,
     lastModified |-> lastModified, content |-> content]

NameA == <<"a">>
NameB == <<"b">>
NameC == <<"c">>
NameD == <<"d">>
NameE == <<"e">>
NameF == <<"f">>

\* the files candidates are drawn from
FileA == File(NameA, 1, ImagePng, 1, 1)
FileATwin == File(NameA, 1, ImagePng, 1, 2)
FileAtLimit == File(NameB, 5 * Mebibyte, ImageJpeg, 1, 1)
FileOverLimit == File(NameB, 5 * Mebibyte + 1, ImageJpeg, 1, 1)
FileVideo == File(NameC, 1, VideoMp4, 2, 1)
FileBigVideo == File(NameD, 6 * Mebibyte, VideoMp4, 2, 1)
FileGif == File(NameE, 1, ImageGif, 2, 1)
FileImages == File(NameF, 1, ImagesPng, 2, 1)

FileUniverse ==
    {FileA, FileATwin, FileAtLimit, FileOverLimit,
     FileVideo, FileBigVideo, FileGif, FileImages}

\* the non-empty sequences over S of length at most n
SeqsUpTo(S, n) == UNION {[1..k -> S] : k \in 1..n}

----------------------------------------------------------------------------
(* lib/fileValidation *)

\* a signature that leaves lastModified out
createFileSignatureUndated(file) ==
    file.name \o <<"|">> \o Dec(file.size) \o <<"|">> \o file.type

createFileSignature(file) ==
    file.name \o <<"|">> \o Dec(file.size) \o <<"|">> \o file.type
        \o <<"|">> \o Dec(file.lastModified)

NoOptions == [k \in {} |-> 0]

\* the route that renders EditProductPage and the route onSubmit navigates to
EditPage == "EditProductPage"
Listings == "/dashboard/listings"

\* a product without a featured image and without product_images rows
NoDatabase == [featured_image_url |-> <<>>, product_images |-> <<>>]

\* new Map()
EmptyMap == [k \in {} |-> 0]

\* the destructuring of options with its defaults
maxFileSizeOf(options) ==
    IF "maxFileSize" \in DOMAIN options THEN options["maxFileSize"]
    ELSE DefaultMaxFileSize

allowedTypesOf(options) ==
    IF "allowedTypes" \in DOMAIN options THEN options["allowedTypes"]
    ELSE DefaultAllowedTypes

existingFilesOf(options) ==
    IF "existingFiles" \in DOMAIN options THEN options["existingFiles"]
    ELSE <<>>

\* a reference set that is never filled
existingSignaturesNone(options) == {}

\* new Set(existingFiles.map(createFileSignature))
existingSignaturesOf(options) ==
    {createFileSignature(f) : f \in Range(existingFilesOf(options))}

\* a size test that also turns away a file of exactly the limit
SizeExceedsOrEquals(file, maxFileSize) == file.size >= maxFileSize * 1024 * 1024

\* file.size > maxFileSize * 1024 * 1024
SizeExceeds(file, maxFileSize) == file.size > maxFileSize * 1024 * 1024

\* allowedTypes.some(type => file.type.startsWith(type.split('/')[0]) || file.type === type)
TypeAllowed(file, allowedTypes) ==
    \E k \in DOMAIN allowedTypes :
        \/ StartsWith(file.type, SplitFirst(allowedTypes[k]))
        \/ file.type = allowedTypes[k]

\* `Tamanho excede ${maxFileSize}MB`
SizeReason(maxFileSize) == <<"Tamanho excede ">> \o Dec(maxFileSize) \o <<"MB">>

TypeReason == <<"Tipo de arquivo nao permitido">>

EmptyResult == [validFiles |-> <<>>, duplicates |-> <<>>, invalid |-> <<>>]

\* the state of the loop: the result so far and processedSignatures
EmptyLoopState == [result |-> EmptyResult, processedSignatures |-> {}]

\* result.invalid.push({ name: file.name, reason })
pushInvalid(st, file, reason) ==
    [st EXCEPT !.result.invalid = Append(@, [name |-> file.name, reason |-> reason])]

\* a duplicate that is skipped without being reported
pushDuplicateLost(st, file) == st

\* result.duplicates.push(file.name)
pushDuplicate(st, file) ==
    [st EXCEPT !.result.duplicates = Append(@, file.name)]

\* an accepted file put at the front of validFiles
pushValidFront(st, file, fileSignature) ==
    [st EXCEPT !.processedSignatures = @ \cup {fileSignature},
               !.result.validFiles = <<file>> \o @]

\* an accepted file whose signature is not recorded in processedSignatures
pushValidUnrecorded(st, file, fileSignature) ==
    [st EXCEPT !.result.validFiles = Append(@, file)]

\* processedSignatures.add(fileSignature); result.validFiles.push(file)
pushValid(st, file, fileSignature) ==
    [st EXCEPT !.processedSignatures = @ \cup {fileSignature},
               !.result.validFiles = Append(@, file)]

\* a loop that tests the type before the size
LoopBodyTypeFirst(st, file, options) ==
    LET fileSignature == createFileSignature(file)
        maxFileSize == maxFileSizeOf(options)
    IN  IF ~TypeAllowed(file, allowedTypesOf(options))
        THEN pushInvalid(st, file, TypeReason)
        ELSE IF SizeExceeds(file, maxFileSize)
        THEN pushInvalid(st, file, SizeReason(maxFileSize))
        ELSE IF fileSignature \in existingSignaturesOf(options)
        THEN pushDuplicate(st, file)
        ELSE IF fileSignature \in st.processedSignatures
        THEN pushDuplicate(st, file)
        ELSE pushValid(st, file, fileSignature)

\* one iteration of the for loop of validateFiles
LoopBody(st, file, options) ==
    LET fileSignature == createFileSignature(file)
        maxFileSize == maxFileSizeOf(options)
    IN  IF SizeExceeds(file, maxFileSize)
        THEN pushInvalid(st, file, SizeReason(maxFileSize))
        ELSE IF ~TypeAllowed(file, allowedTypesOf(options))
        THEN pushInvalid(st, file, TypeReason)
        ELSE IF fileSignature \in existingSignaturesOf(options)
        THEN pushDuplicate(st, file)
        ELSE IF fileSignature \in st.processedSignatures
        THEN pushDuplicate(st, file)
        ELSE pushValid(st, file, fileSignature)

RECURSIVE LoopFrom(_, _, _, _)
LoopFrom(st, files, i, options) ==
    IF i > Len(files) THEN st
    ELSE LoopFrom(LoopBody(st, files[i], options), files, i + 1, options)

\* the value the promise of validateFiles(files, options) resolves to
validateFiles(files, options) == LoopFrom(EmptyLoopState, files, 1, options).result

\* createFileSignature(file1) === createFileSignature(file2)
areFilesIdentical(file1, file2) ==
    createFileSignature(file1) = createFileSignature(file2)

HexChars ==
    <<"0", "1", "2", "3", "4", "5", "6", "7", "8", "9", "a", "b", "c", "d", "e", "f">>

\* b.toString(16).padStart(2, '0') for a byte b
HexByte(b) == <<HexChars[(b \div 16) + 1], HexChars[(b % 16) + 1]>>

\* hashArray.map(b => b.toString(16).padStart(2, '0')).join('')
RECURSIVE HexJoin(_)
HexJoin(hashArray) ==
    IF hashArray = <<>> THEN <<>>
    ELSE HexByte(Head(hashArray)) \o HexJoin(Tail(hashArray))

\* crypto.subtle.digest('SHA-256', buffer) as bytes: a digest that tells the
\* contents of the model apart, two bytes long
Sha256(content) == <<(content * 37) % 256, (content * 101 + 7) % 256>>

\* the ways a generateFileHash call can go
HashOutcomes == {"ok", "arrayBuffer rejects", "digest rejects"}

\* a generateFileHash without the catch: the rejection reaches the caller
generateFileHashUncaught(file, outcome) ==
    IF outcome = "ok" THEN HexJoin(Sha256(file.content))
    ELSE <<"rejected">>

\* the value the promise of generateFileHash(file) resolves to
generateFileHash(file, outcome) ==
    IF outcome = "ok" THEN HexJoin(Sha256(file.content))
    ELSE createFileSignature(file)

(* generateFileHash calls, one per file, each resolving on its own *)

HashFiles == {FileA, FileATwin, FileAtLimit, FileGif}

\* the longest list of files hashed together
MaxHashed == 2

GenerateFileHash ==
    \E k \in DOMAIN hashing :
        /\ hashing[k].result = <<>>
        /\ hashing' =
               [hashing EXCEPT
                   ![k].result = <<generateFileHash(hashing[k].file, hashing[k].outcome)>>]
        /\ UNCHANGED <<managerVars, cropVars, urlVars, pageVars, validation, second, comparison>>

(* An areFilesIdentical call *)

NamePipe == <<"a", "|", "1">>
TypeX == <<"x">>
TypePipe == <<"1", "|", "x">>

\* FileA, a file of the same four fields, files that differ from FileA in
\* one field or in all, and two files with the separator in a name or a type
SignatureFiles ==
    {FileA, FileATwin,
     File(NameB, 1, ImagePng, 1, 1),
     File(NameA, 11, ImagePng, 1, 1),
     File(NameA, 1, ImageJpeg, 1, 1),
     File(NameA, 1, ImagePng, 11, 1),
     File(NameB, 11, ImageJpeg, 11, 1),
     File(NamePipe, 1, TypeX, 1, 1),
     File(NameA, 1, TypePipe, 1, 1)}

\* no call: result is <<>> until the call returns and <<value>> after
NoComparison == [file1 |-> FileA, file2 |-> FileA, result |-> <<>>]

AreFilesIdentical ==
    /\ comparison.result = <<>>
    /\ comparison' =
           [comparison EXCEPT
               !.result = <<areFilesIdentical(comparison.file1, comparison.file2)>>]
    /\ UNCHANGED <<managerVars, cropVars, urlVars, pageVars, hashing, validation, second>>

(* A validateFiles call, one loop iteration per step *)

NoValidation ==
    [files |-> <<>>, options |-> NoOptions, i |-> 1, st |-> EmptyLoopState]

ExistingChoices ==
    {<<FileATwin>>, <<FileOverLimit, FileVideo, FileBigVideo>>, <<FileGif>>}

ValidationOptions ==
    {a @@ b @@ c :
        a \in {NoOptions, "maxFileSize" :> 1, "maxFileSize" :> 5},
        b \in {NoOptions, "allowedTypes" :> <<VideoMp4>>},
        c \in {NoOptions} \cup {"existingFiles" :> e : e \in ExistingChoices}}

\* a loop that takes its candidates off the front of the array it was given
ValidateLoopShift ==
    /\ validation.files # <<>>
    /\ validation' =
           [validation EXCEPT
               !.st = LoopBody(@, Head(validation.files), validation.options),
               !.files = Tail(@)]
    /\ UNCHANGED <<managerVars, cropVars, urlVars, pageVars, hashing, second, comparison>>

ValidateLoop ==
    /\ validation.i <= Len(validation.files)
    /\ validation' =
           [validation EXCEPT
               !.st = LoopBody(@, validation.files[validation.i], validation.options),
               !.i = @ + 1]
    /\ UNCHANGED <<managerVars, cropVars, urlVars, pageVars, hashing, second, comparison>>

validationDone == validation.i > Len(validation.files)

(* Two validateFiles calls: the second is made while the first runs or after it *)

\* a call whose processedSignatures is a set kept outside the call
StartOfCallShared(files, options) ==
    [files |-> files, options |-> options, i |-> 1,
     st |-> [EmptyLoopState EXCEPT
                !.processedSignatures = validation.st.processedSignatures]]

\* the frame of validateFiles(files, options) on entry: result and
\* processedSignatures are created by the call
StartOfCall(files, options) ==
    [files |-> files, options |-> options, i |-> 1, st |-> EmptyLoopState]

TwoCallBatches ==
    {<<FileA>>, <<FileATwin>>, <<FileAtLimit>>, <<FileVideo>>,
     <<FileA, FileATwin>>, <<FileAtLimit, FileA>>}

TwoCallOptions ==
    {NoOptions, "maxFileSize" :> 1,
     "existingFiles" :> <<FileGif>>, "existingFiles" :> <<FileATwin>>}

\* the options of the first call with the files it accepted added to
\* existingFiles, as a caller does that keeps the accepted files
OptionsAfterFirst ==
    ("existingFiles" :> (existingFilesOf(validation.options)
                             \o validation.st.result.validFiles))
        @@ validation.options

secondStarted == second # NoValidation

SecondCall ==
    /\ ~secondStarted
    /\ \E files \in TwoCallBatches,
          options \in TwoCallOptions
                         \cup (IF validationDone THEN {OptionsAfterFirst} ELSE {}) :
           second' = StartOfCall(files, options)
    /\ UNCHANGED <<managerVars, cropVars, urlVars, pageVars, hashing, validation, comparison>>

\* a loop iteration that also records what it accepts in the other call
SecondLoopLeaking ==
    /\ secondStarted
    /\ second.i <= Len(second.files)
    /\ second' =
           [second EXCEPT
               !.st = LoopBody(@, second.files[second.i], second.options),
               !.i = @ + 1]
    /\ validation' =
           [validation EXCEPT
               !.st.processedSignatures = @ \cup second'.st.processedSignatures]
    /\ UNCHANGED <<managerVars, cropVars, urlVars, pageVars, hashing, comparison>>

SecondLoop ==
    /\ secondStarted
    /\ second.i <= Len(second.files)
    /\ second' =
           [second EXCEPT
               !.st = LoopBody(@, second.files[second.i], second.options),
               !.i = @ + 1]
    /\ UNCHANGED <<managerVars, cropVars, urlVars, pageVars, hashing, validation, comparison>>

secondDone == secondStarted /\ second.i > Len(second.files)

----------------------------------------------------------------------------
(* components/product/ProductImageManager *)

\* the maxFileSize prop, in MiB
maxFileSize == 5

\* MediaItem.file of an entry that has no file
NoFile == [undefined |-> TRUE]

MediaItem(obj, id, url, file, isFeatured) ==
    [obj |-> obj, id |-> id, url |-> url, file |-> file,
     isFeatured |-> isFeatured, mediaType |-> "image"]

\* the arrays suspended handleFileSelect calls captured
CapturedItems == UNION {Range(inflight[k].images) : k \in DOMAIN inflight}

\* the n least positive numbers not in used
RECURSIVE Fresh(_, _)
Fresh(used, n) ==
    IF n = 0 THEN <<>>
    ELSE LET k == CHOOSE k \in 1..(Cardinality(used) + 1) :
                      /\ k \notin used
                      /\ \A j \in 1..(k - 1) : j \in used
         IN <<k>> \o Fresh(used \cup {k}, n - 1)

\* uuidv4(), URL.createObjectURL() and object allocation give values that are
\* in use nowhere: the least numbers no retained item carries
UsedIds(items) == {m.id[2] : m \in {x \in items : x.id[1] = "new"}}
UsedUrls(items) == {m.url[2] : m \in {x \in items : x.url[1] = "blob"}}
UsedObjs(items) == {m.obj : m \in items}

\* an id no entry ever has
AbsentId == <<"absent", 0>>

\* the ids a caller may pass
IdArguments == {m.id : m \in Range(images) \cup CapturedItems} \cup {AbsentId}

\* the FileLists the user picks or drops
FileLists ==
    {<<FileA>>, <<FileAtLimit>>, <<FileGif>>, <<FileVideo>>,
     <<FileA, FileATwin>>, <<FileVideo, FileAtLimit>>, <<FileOverLimit, FileBigVideo>>,
     <<FileA, FileAtLimit, FileGif>>, <<FileGif, FileVideo, FileA>>}

Toast(level, kind, detail) == [level |-> level, kind |-> kind, detail |-> detail]

ToastBusy == Toast("info", "Aguarde o processamento anterior terminar", <<>>)
ToastLimit == Toast("error", "Limite maximo de imagens atingido", <<Dec(maxImages)>>)
ToastNoneValid == Toast("error", "Nenhuma imagem valida para adicionar", <<>>)
ToastFailed == Toast("error", "Erro ao processar imagens. Tente novamente.", <<>>)
ToastInvalid(entry) == Toast("error", "invalid", <<entry.name, entry.reason>>)
ToastDuplicates(names) == Toast("warning", "Imagens duplicadas ignoradas", names)
ToastAdded(validFiles) == Toast("success", "imagem(ns) adicionada(s)", <<Dec(Len(validFiles))>>)

\* the ids of imgs, each once, in the order a Set of them is iterated
RECURSIVE DistinctIds(_)
DistinctIds(imgs) ==
    IF imgs = <<>> THEN <<>>
    ELSE LET rest == DistinctIds(SubSeq(imgs, 1, Len(imgs) - 1))
             id == imgs[Len(imgs)].id
         IN IF id \in Range(rest) THEN rest ELSE Append(rest, id)

\* the ids handleImagesChange appends to imagesToDelete: those of
\* productImages that newImages lacks, but for 'featured-existing' and the
\* ids that start with new- or video-
deletedIdsOf(productImages, newImages) ==
    LET newImageIds == {m.id : m \in Range(newImages)}
        isDeleted(id) ==
            /\ id \notin newImageIds
            /\ id[1] # "featured-existing"
            /\ id[1] # "new"
            /\ id[1] # "video"
    IN SelectSeq(DistinctIds(productImages), isDeleted)

\* what handleImagesChange(newImages), the onChange rendered with
\* productImages, does to imagesToDelete; setProductImages(newImages) is the
\* assignment to images of the handler that calls it
handleImagesChange(productImages, newImages) ==
    imagesToDelete' = imagesToDelete \o deletedIdsOf(productImages, newImages)

\* a reference set that leaves the entries of the collection out
existingFilesInNone(imgs) == <<>>

\* images.map(img => img.file).filter(f => f !== undefined)
existingFilesIn(imgs) ==
    LET hasFile(m) == m.file # NoFile
        kept == SelectSeq(imgs, hasFile)
    IN [i \in DOMAIN kept |-> kept[i].file]

\* a finally block that resets the state and leaves the ref set
ReleaseGuardStateOnly ==
    /\ isProcessing' = FALSE
    /\ UNCHANGED processingQueueRef

\* the finally block of handleFileSelect
ReleaseGuard ==
    /\ isProcessing' = FALSE
    /\ processingQueueRef' = FALSE

\* a handler that does not test the guard
GuardTakenNever == FALSE

\* the test of the single-flight guard at the head of handleFileSelect
GuardTaken == processingQueueRef

\* a guard test placed inside the try, so that the finally block runs
RejectConcurrentInsideTry ==
    /\ toasts' = <<ToastBusy>>
    /\ ReleaseGuard
    /\ UNCHANGED <<images, inflight>>

\* the return taken when the guard is held: before the try, so no finally
RejectConcurrent ==
    /\ toasts' = <<ToastBusy>>
    /\ UNCHANGED <<images, processingQueueRef, isProcessing, inflight>>

\* the synchronous part of handleFileSelect(files), up to its await or return
handleFileSelect(files) ==
    /\ Len(files) > 0
    /\ IF GuardTaken
       THEN RejectConcurrent
       ELSE LET remainingSlots == maxImages - Len(images)
                filesToAdd == Slice0(files, remainingSlots)
            IN  IF Len(filesToAdd) = 0
                THEN \* return inside try: the finally block releases the guard
                     /\ toasts' = <<ToastLimit>>
                     /\ ReleaseGuard
                     /\ UNCHANGED <<images, inflight>>
                ELSE /\ Len(inflight) < MaxInflight
                     /\ processingQueueRef' = TRUE
                     /\ isProcessing' = TRUE
                     /\ inflight' = Append(inflight,
                            [images |-> images,
                             filesToAdd |-> filesToAdd,
                             existingFiles |-> existingFilesIn(images)])
                     /\ toasts' = <<>>
                     /\ UNCHANGED images
    /\ UNCHANGED <<cropVars, validationVars, urlVars, pageVars>>

HandleFileSelect == \E files \in FileLists : handleFileSelect(files)

\* handleDrop: the isProcessing state is tested before handleFileSelect is called
HandleDrop ==
    \E files \in FileLists :
        IF isProcessing
        THEN /\ toasts' = <<ToastBusy>>
             /\ UNCHANGED <<images, processingQueueRef, isProcessing, inflight, cropVars, validationVars, urlVars, pageVars>>
        ELSE handleFileSelect(files)

RemoveAt(s, k) == [i \in 1..(Len(s) - 1) |-> IF i < k THEN s[i] ELSE s[i + 1]]

\* entries whose ids are numbered from one in every call, whatever ids
\* the collection already holds
newImagesNumberedPerCall(validFiles, captured, others) ==
    LET n == Len(validFiles)
        retained == Range(captured) \cup others
        urls == Fresh(UsedUrls(retained), n)
        objs == Fresh(UsedObjs(retained), n)
    IN [index \in 1..n |->
           MediaItem(objs[index], <<"new", index>>, <<"blob", urls[index]>>,
                     validFiles[index],
                     Len(captured) = 0 /\ index = 1)]

\* the entries handleFileSelect builds from validFiles
newImagesOf(validFiles, captured, others) ==
    LET n == Len(validFiles)
        retained == Range(captured) \cup others
        ids == Fresh(UsedIds(retained), n)
        urls == Fresh(UsedUrls(retained), n)
        objs == Fresh(UsedObjs(retained), n)
    IN [index \in 1..n |->
           MediaItem(objs[index], <<"new", ids[index]>>, <<"blob", urls[index]>>,
                     validFiles[index],
                     Len(captured) = 0 /\ index = 1)]

\* a handler that gives the batch up when a candidate is invalid or a
\* duplicate
ResumeFileSelectAllOrNothing(k) ==
    LET call == inflight[k]
        validationResult ==
            validateFiles(call.filesToAdd,
                [maxFileSize |-> maxFileSize,
                 allowedTypes |-> <<ImagePng, ImageJpeg, ImageWebp, ImageJpg>>,
                 existingFiles |-> call.existingFiles])
        others == UNION {Range(inflight[j].images) : j \in DOMAIN inflight \ {k}}
        newImages == newImagesOf(validationResult.validFiles, call.images, others)
        clean ==
            /\ Len(validationResult.invalid) = 0
            /\ Len(validationResult.duplicates) = 0
            /\ Len(validationResult.validFiles) > 0
    IN  /\ inflight' = RemoveAt(inflight, k)
        /\ IF clean
           THEN /\ images' = call.images \o newImages
                /\ handleImagesChange(call.images, call.images \o newImages)
                /\ toasts' = <<ToastAdded(validationResult.validFiles)>>
           ELSE /\ toasts' = <<ToastFailed>>
                /\ UNCHANGED <<images, imagesToDelete>>
        /\ ReleaseGuard
        /\ UNCHANGED <<cropVars, validationVars, urlVars, productVars>>

\* the rest of the k-th suspended handleFileSelect call, from the moment the
\* promise of validateFiles resolves
ResumeFileSelect(k) ==
    LET call == inflight[k]
        validationResult ==
            validateFiles(call.filesToAdd,
                [maxFileSize |-> maxFileSize,
                 allowedTypes |-> <<ImagePng, ImageJpeg, ImageWebp, ImageJpg>>,
                 existingFiles |-> call.existingFiles])
        invalidToasts ==
            [i \in DOMAIN validationResult.invalid |->
                ToastInvalid(validationResult.invalid[i])]
        duplicateToasts ==
            IF Len(validationResult.duplicates) > 0
            THEN <<ToastDuplicates(validationResult.duplicates)>>
            ELSE <<>>
        others == UNION {Range(inflight[j].images) : j \in DOMAIN inflight \ {k}}
        newImages == newImagesOf(validationResult.validFiles, call.images, others)
    IN  /\ inflight' = RemoveAt(inflight, k)
        /\ IF Len(validationResult.validFiles) = 0
           THEN /\ toasts' = invalidToasts \o duplicateToasts \o
                       (IF Len(validationResult.invalid) = 0
                           /\ Len(validationResult.duplicates) = 0
                        THEN <<ToastNoneValid>> ELSE <<>>)
                /\ UNCHANGED <<images, imagesToDelete>>
           ELSE /\ images' = call.images \o newImages
                /\ handleImagesChange(call.images, call.images \o newImages)
                /\ toasts' = invalidToasts \o duplicateToasts \o
                       <<ToastAdded(validationResult.validFiles)>>
        /\ ReleaseGuard
        /\ UNCHANGED <<cropVars, validationVars, urlVars, productVars>>

\* the k-th suspended call when the awaited promise rejects: catch, then finally
ResumeFileSelectThrow(k) ==
    /\ inflight' = RemoveAt(inflight, k)
    /\ toasts' = <<ToastFailed>>
    /\ ReleaseGuard
    /\ UNCHANGED <<images, cropVars, validationVars, urlVars, pageVars>>

\* a map that sets the flag of the entry and leaves the flags of the others
featuredImagesKeepOthers(imgs, imageId) ==
    LET objs == Fresh(UsedObjs(CapturedItems), Len(imgs))
    IN [i \in DOMAIN imgs |->
           [imgs[i] EXCEPT !.obj = objs[i],
                           !.isFeatured = (@ \/ imgs[i].id = imageId)]]

\* the entries after setFeaturedImage(imageId): every entry is a new object
featuredImagesOf(imgs, imageId) ==
    LET objs == Fresh(UsedObjs(CapturedItems), Len(imgs))
    IN [i \in DOMAIN imgs |->
           [imgs[i] EXCEPT !.obj = objs[i], !.isFeatured = (imgs[i].id = imageId)]]

setFeaturedImage(imageId) ==
    /\ images' = featuredImagesOf(images, imageId)
    /\ handleImagesChange(images, featuredImagesOf(images, imageId))
    /\ toasts' = <<>>
    /\ UNCHANGED <<processingQueueRef, isProcessing, inflight, cropVars, validationVars, urlVars, productVars>>

\* a removal that never promotes an entry
PromotesNever(imgs, imageId) == FALSE

\* whether removeImage(imageId) promotes the first remaining entry
Promotes(imgs, imageId) ==
    LET isIt(m) == m.id = imageId
        found == SelectSeq(imgs, isIt)
        isNot(m) == m.id # imageId
        remainingImages == SelectSeq(imgs, isNot)
    IN  /\ Len(found) > 0
        /\ found[1].isFeatured
        /\ Len(remainingImages) > 0

removeImage(imageId) ==
    LET isNot(m) == m.id # imageId
        remainingImages == SelectSeq(images, isNot)
        promoted == Promotes(images, imageId)
        \* remainingImages[0].isFeatured = true writes to the object itself
        written(m) ==
            IF promoted /\ m.obj = remainingImages[1].obj
            THEN [m EXCEPT !.isFeatured = TRUE] ELSE m
    IN  /\ images' = [i \in DOMAIN remainingImages |-> written(remainingImages[i])]
        /\ inflight' =
               [k \in DOMAIN inflight |->
                   [inflight[k] EXCEPT !.images =
                       [i \in DOMAIN inflight[k].images |-> written(inflight[k].images[i])]]]
        /\ handleImagesChange(images, remainingImages)
        /\ toasts' = <<>>
        /\ UNCHANGED <<processingQueueRef, isProcessing, cropVars, validationVars, urlVars, productVars>>

(* Recropping an entry *)

\* toast.success('Imagem recortada com sucesso')
ToastCropped == Toast("success", "Imagem recortada com sucesso", <<>>)

\* the numbers of the uuids in the names of recropped files
UsedCropNames(items) ==
    {m.file.name[2] : m \in {x \in items : x.file # NoFile /\ x.file.name[1] = "recropped-"}}

\* the blobs the cropper may hand over: size and content
CroppedBlobs == {[size |-> 2, content |-> 3], [size |-> 3, content |-> 4]}

\* the time handleCropComplete runs at, as lastModified of the new File
CropTime == 3

\* new File([croppedBlob], `recropped-${uuidv4()}.jpg`, { type: 'image/jpeg' })
croppedFileOf(croppedBlob, uuid) ==
    File(<<"recropped-", uuid, ".jpg">>, croppedBlob.size, ImageJpeg, CropTime,
         croppedBlob.content)

\* a replacement that builds the entry anew, unfeatured
croppedEntryUnfeatured(img, obj, url, croppedFile) ==
    MediaItem(obj, img.id, url, croppedFile, FALSE)

\* { ...img, url: URL.createObjectURL(croppedFile), file: croppedFile }
croppedEntry(img, obj, url, croppedFile) ==
    [img EXCEPT !.obj = obj, !.url = url, !.file = croppedFile]

\* handleRecropImage(image), called with an entry of the rendered list
handleRecropImage(image) ==
    /\ imageToRecrop' = <<image>>
    /\ showCropper' = TRUE
    /\ UNCHANGED <<managerVars, validationVars, urlVars, pageVars>>

\* handleCropComplete(croppedBlob), called by the cropper, which is rendered
\* while imageToRecrop is set
handleCropComplete(croppedBlob) ==
    /\ imageToRecrop # <<>>
    /\ LET retained == Range(images) \cup CapturedItems \cup Range(imageToRecrop)
           uuid == Fresh(UsedCropNames(retained), 1)[1]
           url == <<"blob", Fresh(UsedUrls(retained), 1)[1]>>
           obj == Fresh(UsedObjs(retained), 1)[1]
           croppedFile == croppedFileOf(croppedBlob, uuid)
           updatedImages ==
               [i \in DOMAIN images |->
                   IF images[i].id = imageToRecrop[1].id
                   THEN croppedEntry(images[i], obj, url, croppedFile)
                   ELSE images[i]]
       IN  /\ images' = updatedImages
           /\ handleImagesChange(images, updatedImages)
           /\ showCropper' = FALSE
           /\ imageToRecrop' = <<>>
           /\ toasts' = <<ToastCropped>>
    /\ UNCHANGED <<processingQueueRef, isProcessing, inflight, validationVars, urlVars, productVars>>

handleCropCancel ==
    /\ imageToRecrop # <<>>
    /\ showCropper' = FALSE
    /\ imageToRecrop' = <<>>
    /\ UNCHANGED <<managerVars, validationVars, urlVars, pageVars>>

HandleRecropImage == \E image \in Range(images) : handleRecropImage(image)

HandleCropComplete == \E croppedBlob \in CroppedBlobs : handleCropComplete(croppedBlob)

HandleCropCancel == handleCropCancel

\* the file lists offered to the manager with its cropper
CropFileLists == {<<FileA>>, <<FileAtLimit, FileGif>>}

HandleFileSelectCrop == \E files \in CropFileLists : handleFileSelect(files)

SetFeaturedImage == \E imageId \in IdArguments : setFeaturedImage(imageId)

RemoveImage == \E imageId \in IdArguments : removeImage(imageId)

Resume == \E k \in DOMAIN inflight : ResumeFileSelect(k)

ResumeThrow == \E k \in DOMAIN inflight : ResumeFileSelectThrow(k)

----------------------------------------------------------------------------
(* The ProductImageManager of part_001: urlCache and validateFilesWithHash *)

\* most urls URL.createObjectURL hands out in a run of the model
MaxUrls == 2

\* most times one url is passed to URL.revokeObjectURL in a run of the model
MaxRevokes == 2

\* the entry fetchProduct builds from product.featured_image_url
FeaturedExisting ==
    MediaItem(1, <<"featured-existing", 0>>, <<"remote", 0>>, NoFile, TRUE)

\* the entry fetchProduct builds from the n-th row of product_images
PersistedImage(n) == MediaItem(n + 1, <<"row", n>>, <<"remote", n>>, NoFile, FALSE)

\* the collections fetchProduct hands to the manager: of no image, of the
\* featured image, and of the featured image and maxImages rows
SeededCollections ==
    {<<>>, <<FeaturedExisting>>,
     [i \in 1..(maxImages + 1) |->
         IF i = 1 THEN FeaturedExisting ELSE PersistedImage(i - 1)]}

\* the entries handleFileSelect of part_001 builds carry a fileHash
MediaItemWithHash(obj, id, url, file, isFeatured, fileHash) ==
    [obj |-> obj, id |-> id, url |-> url, file |-> file,
     isFeatured |-> isFeatured, mediaType |-> "image", fileHash |-> fileHash]

\* images.map(img => img.fileHash).filter(h => h !== undefined)
existingHashesIn(imgs) ==
    {m.fileHash : m \in {x \in Range(imgs) : "fileHash" \in DOMAIN x}}

EmptyResultWithHash ==
    [validFiles |-> <<>>, duplicates |-> <<>>, invalid |-> <<>>, hashes |-> EmptyMap]

\* the identities a candidate is a duplicate of: the hashes and the
\* signatures of the existing files
existingIdentitiesOf(options) ==
    options.existingHashes
        \cup {createFileSignature(f) : f \in Range(options.existingFiles)}

\* the ordered checks of the validator, with the content hash as identity
\* and the signature where hashing failed
LoopBodyWithHash(st, file, options, outcome) ==
    LET identity == generateFileHash(file, outcome)
    IN  IF SizeExceeds(file, options.maxFileSize)
        THEN pushInvalid(st, file, SizeReason(options.maxFileSize))
        ELSE IF ~TypeAllowed(file, options.allowedTypes)
        THEN pushInvalid(st, file, TypeReason)
        ELSE IF identity \in existingIdentitiesOf(options)
        THEN pushDuplicate(st, file)
        ELSE IF identity \in st.processedSignatures
        THEN pushDuplicate(st, file)
        ELSE [st EXCEPT !.processedSignatures = @ \cup {identity},
                        !.result.validFiles = Append(@, file),
                        !.result.hashes = (file.name :> identity) @@ @]

RECURSIVE LoopFromWithHash(_, _, _, _, _)
LoopFromWithHash(st, files, i, options, outcomes) ==
    IF i > Len(files) THEN st
    ELSE LoopFromWithHash(LoopBodyWithHash(st, files[i], options, outcomes[i]),
                          files, i + 1, options, outcomes)

\* the way the hashing of files[i] went, from the record of the hash
\* computations in the order they settled
outcomesOf(settled) ==
    [i \in {settled[j].index : j \in DOMAIN settled} |->
        (CHOOSE e \in Range(settled) : e.index = i).outcome]

\* a validator that classifies every candidate at the moment its hash
\* computation settles
validateFilesAsSettled(files, options, settled) ==
    LoopFromWithHash([result |-> EmptyResultWithHash, processedSignatures |-> {}],
                     [j \in DOMAIN settled |-> files[settled[j].index]], 1, options,
                     [j \in DOMAIN settled |-> settled[j].outcome]).result

\* the value the promise of validateFilesWithHash(files, options) resolves
\* to once the hash computations of all files have settled, in whatever order:
\* the candidates are classified in the order of files
validateFilesWithHash(files, options, settled) ==
    LoopFromWithHash([result |-> EmptyResultWithHash, processedSignatures |-> {}],
                     files, 1, options, outcomesOf(settled)).result

\* Math.round(x / y * 100): the quotient in hundredths, halves rounded up
Hundredths(x, y) == (2 * 100 * x + y) \div (2 * y)

\* the text of a number of hundredths, as JavaScript prints the number
HundredthsText(h) ==
    Dec(h \div 100) \o
        (IF h % 100 = 0 THEN <<>>
         ELSE IF h % 10 = 0 THEN <<".">> \o Dec((h % 100) \div 10)
         ELSE <<".", DigitChars[((h % 100) \div 10) + 1], DigitChars[(h % 10) + 1]>>)

\* formatFileSize(bytes), for bytes below 1024 ^ 4
formatFileSize(bytes) ==
    IF bytes = 0 THEN <<"0 Bytes">>
    ELSE LET k == 1024
             sizes == <<"Bytes", "KB", "MB", "GB">>
             i == IF bytes < k THEN 0
                  ELSE IF bytes < k * k THEN 1
                  ELSE IF bytes < k * k * k THEN 2
                  ELSE 3
         IN HundredthsText(Hundredths(bytes, k ^ i)) \o <<" ", sizes[i + 1]>>

RECURSIVE SumOfSizes(_)
SumOfSizes(files) ==
    IF files = <<>> THEN 0 ELSE Head(files).size + SumOfSizes(Tail(files))

\* `${validFiles.length} imagem(ns) adicionada(s) (${formatFileSize(totalSize)})`
ToastAddedWithSize(validFiles) ==
    Toast("success", "imagem(ns) adicionada(s)",
          Dec(Len(validFiles)) \o formatFileSize(SumOfSizes(validFiles)))

\* createSafeObjectURL(file, fileId): the url and what the call leaves in
\* urlCache and in the count of urls created
createSafeObjectURL(cache, count, fileId) ==
    IF fileId \in DOMAIN cache
    THEN [url |-> cache[fileId], urlCache |-> cache, blobCount |-> count]
    ELSE [url |-> <<"blob", count + 1>>,
          urlCache |-> (fileId :> <<"blob", count + 1>>) @@ cache,
          blobCount |-> count + 1]

\* the file lists offered to the manager of part_001
CachedFileLists == {<<FileA>>, <<FileAtLimit, FileGif>>, <<FileA, FileATwin>>}

\* the synchronous part of handleFileSelect(files), up to its await or return
handleFileSelectCached(files) ==
    /\ Len(files) > 0
    /\ IF processingQueueRef
       THEN /\ toasts' = <<ToastBusy>>
            /\ UNCHANGED <<images, processingQueueRef, isProcessing, inflight, hashing>>
       ELSE LET remainingSlots == maxImages - Len(images)
                filesToAdd == Slice0(files, remainingSlots)
            IN  IF Len(filesToAdd) = 0
                THEN /\ toasts' = <<ToastLimit>>
                     /\ isProcessing' = FALSE
                     /\ processingQueueRef' = FALSE
                     /\ UNCHANGED <<images, inflight, hashing>>
                ELSE /\ Len(inflight) < MaxInflight
                     /\ processingQueueRef' = TRUE
                     /\ isProcessing' = TRUE
                     /\ inflight' = Append(inflight,
                            [images |-> images,
                             filesToAdd |-> filesToAdd,
                             existingFiles |-> existingFilesIn(images),
                             existingHashes |-> existingHashesIn(images)])
                     /\ hashing' = <<>>
                     /\ toasts' = <<>>
                     /\ UNCHANGED images
    /\ UNCHANGED <<cropVars, validation, second, comparison, urlVars, pageVars>>

\* the numbers of the uuids in the keys of urlCache
UsedCacheIds == {id[2] : id \in {x \in DOMAIN urlCache : x[1] = "new"}}

\* the hash computation of the i-th candidate of the k-th suspended call
\* settles, after those that hashing records
hashSettles(k, i, outcome) ==
    /\ i \notin {hashing[j].index : j \in DOMAIN hashing}
    /\ hashing' = Append(hashing,
           [index |-> i, file |-> inflight[k].filesToAdd[i], outcome |-> outcome,
            result |-> <<generateFileHash(inflight[k].filesToAdd[i], outcome)>>])
    /\ UNCHANGED <<managerVars, cropVars, validation, second, comparison, urlVars, pageVars>>

\* the rest of the k-th suspended handleFileSelect call of part_001, from
\* the moment the promise of validateFilesWithHash resolves
ResumeFileSelectCached(k) ==
    LET call == inflight[k]
        validationResult ==
            validateFilesWithHash(call.filesToAdd,
                [maxFileSize |-> maxFileSize,
                 allowedTypes |-> <<ImagePng, ImageJpeg, ImageWebp, ImageJpg>>,
                 existingFiles |-> call.existingFiles,
                 existingHashes |-> call.existingHashes],
                hashing)
        validFiles == validationResult.validFiles
        invalidToasts ==
            [i \in DOMAIN validationResult.invalid |->
                ToastInvalid(validationResult.invalid[i])]
        duplicateToasts ==
            IF Len(validationResult.duplicates) > 0
            THEN <<ToastDuplicates(validationResult.duplicates)>>
            ELSE <<>>
        retained == Range(call.images) \cup Range(images) \cup Range(imageToRecrop)
        n == Len(validFiles)
        ids == Fresh(UsedIds(retained) \cup UsedCacheIds, n)
        objs == Fresh(UsedObjs(retained), n)
        \* the ids are new, so every createSafeObjectURL call creates a url
        newImages ==
            [index \in 1..n |->
                MediaItemWithHash(objs[index], <<"new", ids[index]>>,
                    <<"blob", blobCount + index>>, validFiles[index],
                    Len(call.images) = 0 /\ index = 1,
                    validationResult.hashes[validFiles[index].name])]
    IN  /\ Len(hashing) = Len(call.filesToAdd)
        /\ blobCount + n <= MaxUrls
        /\ inflight' = RemoveAt(inflight, k)
        /\ IF n = 0
           THEN /\ toasts' = invalidToasts \o duplicateToasts \o
                       (IF Len(validationResult.invalid) = 0
                           /\ Len(validationResult.duplicates) = 0
                        THEN <<ToastNoneValid>> ELSE <<>>)
                /\ UNCHANGED <<images, urlVars, imagesToDelete>>
           ELSE /\ images' = call.images \o newImages
                /\ handleImagesChange(call.images, call.images \o newImages)
                /\ urlCache' =
                       [id \in {newImages[i].id : i \in 1..n} |->
                           (CHOOSE m \in Range(newImages) : m.id = id).url] @@ urlCache
                /\ blobCount' = blobCount + n
                /\ UNCHANGED revoked
                /\ toasts' = invalidToasts \o duplicateToasts \o
                       <<ToastAddedWithSize(validFiles)>>
        /\ isProcessing' = FALSE
        /\ processingQueueRef' = FALSE
        /\ UNCHANGED <<cropVars, validationVars, productVars>>

\* handleCropComplete(croppedBlob) of part_001; ids are unique, so at most
\* one entry is replaced
handleCropCompleteCached(croppedBlob) ==
    /\ imageToRecrop # <<>>
    /\ LET target == imageToRecrop[1].id
           present == \E i \in DOMAIN images : images[i].id = target
           cached == target \in DOMAIN urlCache
           retained == Range(images) \cup CapturedItems \cup Range(imageToRecrop)
           uuid == Fresh(UsedCropNames(retained), 1)[1]
           obj == Fresh(UsedObjs(retained), 1)[1]
           croppedFile == croppedFileOf(croppedBlob, uuid)
           safe == createSafeObjectURL(urlCache, blobCount, target)
           updatedImages ==
               [i \in DOMAIN images |->
                   IF images[i].id = target
                   THEN croppedEntry(images[i], obj, safe.url, croppedFile)
                   ELSE images[i]]
       IN  /\ (present /\ cached) => CopiesIn(urlCache[target], revoked) < MaxRevokes
           /\ (present /\ ~cached) => blobCount < MaxUrls
           /\ images' = updatedImages
           /\ handleImagesChange(images, updatedImages)
           /\ revoked' =
                  IF present /\ cached
                  THEN revoked (+) SetToBag({urlCache[target]})
                  ELSE revoked
           /\ urlCache' = IF present THEN safe.urlCache ELSE urlCache
           /\ blobCount' = IF present THEN safe.blobCount ELSE blobCount
           /\ showCropper' = FALSE
           /\ imageToRecrop' = <<>>
           /\ toasts' = <<ToastCropped>>
    /\ UNCHANGED <<processingQueueRef, isProcessing, inflight, validationVars, productVars>>

\* a removal by position, images.splice(images.findIndex(...), 1): an id no
\* entry has gives the position -1, and the last entry is removed
removeImageByPosition(imageId) ==
    LET isNot(m) == m.id # imageId
        present == \E i \in DOMAIN images : images[i].id = imageId
        remainingImages ==
            IF present \/ images = <<>> THEN SelectSeq(images, isNot)
            ELSE SubSeq(images, 1, Len(images) - 1)
        cached == imageId \in DOMAIN urlCache
    IN  /\ cached => CopiesIn(urlCache[imageId], revoked) < MaxRevokes
        /\ images' = remainingImages
        /\ handleImagesChange(images, remainingImages)
        /\ revoked' =
               IF cached THEN revoked (+) SetToBag({urlCache[imageId]}) ELSE revoked
        /\ urlCache' = [id \in DOMAIN urlCache \ {imageId} |-> urlCache[id]]
        /\ toasts' = <<>>
        /\ UNCHANGED <<processingQueueRef, isProcessing, inflight, cropVars, blobCount,
                       validationVars, productVars>>

\* removeImage(imageId) of part_001
removeImageCached(imageId) ==
    LET isNot(m) == m.id # imageId
        remainingImages == SelectSeq(images, isNot)
        promoted == Promotes(images, imageId)
        written(m) ==
            IF promoted /\ m.obj = remainingImages[1].obj
            THEN [m EXCEPT !.isFeatured = TRUE] ELSE m
        cached == imageId \in DOMAIN urlCache
    IN  /\ cached => CopiesIn(urlCache[imageId], revoked) < MaxRevokes
        /\ images' = [i \in DOMAIN remainingImages |-> written(remainingImages[i])]
        /\ inflight' =
               [k \in DOMAIN inflight |->
                   [inflight[k] EXCEPT !.images =
                       [i \in DOMAIN inflight[k].images |-> written(inflight[k].images[i])]]]
        /\ imageToRecrop' = [i \in DOMAIN imageToRecrop |-> written(imageToRecrop[i])]
        /\ revoked' =
               IF cached THEN revoked (+) SetToBag({urlCache[imageId]}) ELSE revoked
        /\ urlCache' = [id \in DOMAIN urlCache \ {imageId} |-> urlCache[id]]
        /\ handleImagesChange(images, remainingImages)
        /\ toasts' = <<>>
        /\ UNCHANGED <<processingQueueRef, isProcessing, showCropper, blobCount,
                       validationVars, productVars>>

HandleFileSelectCached == \E files \in CachedFileLists : handleFileSelectCached(files)

HashSettles ==
    \E k \in DOMAIN inflight :
        \E i \in DOMAIN inflight[k].filesToAdd, outcome \in HashOutcomes :
            hashSettles(k, i, outcome)

ResumeCached == \E k \in DOMAIN inflight : ResumeFileSelectCached(k)

HandleCropCompleteCached ==
    \E croppedBlob \in CroppedBlobs : handleCropCompleteCached(croppedBlob)

RemoveImageCached == \E imageId \in IdArguments : removeImageCached(imageId)

----------------------------------------------------------------------------
(* EditProductPage of part_001: fetchProduct, handleImagesChange, onSubmit *)

\* most rows of product_images a product has when the page loads it
MaxGallery == 1

\* most rows of product_images after any number of saves
MaxRows == 2

\* most ids imagesToDelete comes to hold
MaxToDelete == 2

\* the n-th row of product_images as the page finds it
Row(n) == [id |-> <<"row", n>>, url |-> <<"remote", n>>]

\* the products a page is opened on: with and without featured_image_url,
\* with up to MaxGallery rows of product_images in display_order
Databases ==
    {[featured_image_url |-> featured, product_images |-> [i \in 1..n |-> Row(i)]] :
        featured \in {<<>>, <<"remote", 0>>}, n \in 0..MaxGallery}

\* the allImages fetchProduct builds from the products row and the
\* product_images rows
allImagesOf(db) ==
    LET featured ==
            IF db.featured_image_url # <<>>
            THEN <<MediaItem(1, <<"featured-existing", 0>>, db.featured_image_url,
                             NoFile, TRUE)>>
            ELSE <<>>
    IN featured \o
       [i \in DOMAIN db.product_images |->
           MediaItem(i + 1, db.product_images[i].id, db.product_images[i].url, NoFile,
                     FALSE)]

\* toast.error('Erro ao carregar produto')
ToastLoadError == Toast("error", "Erro ao carregar produto", <<>>)

\* toast.success('Produto atualizado com sucesso!')
ToastSaved == Toast("success", "Produto atualizado com sucesso!", <<>>)

\* toast.error('Erro ao atualizar produto')
ToastSaveError == Toast("error", "Erro ao atualizar produto", <<>>)

\* fetchProduct(): the queries succeed and the entries are published, or a
\* query fails and the collection stays empty
fetchProduct(ok) ==
    /\ fetching
    /\ fetching' = FALSE
    /\ IF ok
       THEN /\ images' = allImagesOf(database)
            /\ toasts' = <<>>
       ELSE /\ toasts' = <<ToastLoadError>>
            /\ UNCHANGED images
    /\ UNCHANGED <<processingQueueRef, isProcessing, inflight, cropVars,
                   validationVars, urlVars, location, database, imagesToDelete>>

\* the url uploadImage(file, user.id, 'product') resolves to when the upload
\* succeeds
UploadedUrl(file) == <<"uploaded", file.name, file.content>>

\* what the awaits of onSubmit can come to: every upload gives a url or
\* nothing, and one of the requests may answer with an error
UploadOutcomes == {"url", "nothing"}
Requests == {"products.update", "product_images.delete", "product_images.insert",
             "product_price_tiers"}

\* the index of productImages.find(img => img.isFeatured), 0 for undefined
FindFeatured(imgs) ==
    IF \E i \in DOMAIN imgs : imgs[i].isFeatured
    THEN CHOOSE i \in DOMAIN imgs :
             /\ imgs[i].isFeatured
             /\ \A j \in 1..(i - 1) : ~imgs[j].isFeatured
    ELSE 0

\* featuredImageUrl of onSubmit; uploads[i] is the outcome of the upload of
\* the file of the i-th entry
featuredImageUrlOf(imgs, uploads) ==
    LET f == FindFeatured(imgs)
    IN  IF f = 0 THEN <<>>
        ELSE IF imgs[f].file # NoFile /\ uploads[f] = "url"
        THEN UploadedUrl(imgs[f].file)
        ELSE imgs[f].url

\* the rows that are left of product_images after .delete().in('id', ids)
RowsWithout(rows, ids) ==
    LET isLeft(r) == r.id \notin Range(ids)
    IN SelectSeq(rows, isLeft)

\* validRecords of onSubmit: a record for every entry that is not featured,
\* has a file and whose upload gave a url
validRecordsOf(imgs, uploads) ==
    LET new == {i \in DOMAIN imgs : ~imgs[i].isFeatured /\ imgs[i].file # NoFile}
        RECURSIVE recordsUpTo(_)
        recordsUpTo(i) ==
            IF i = 0 THEN <<>>
            ELSE IF i \in new /\ uploads[i] = "url"
            THEN Append(recordsUpTo(i - 1), [url |-> UploadedUrl(imgs[i].file)])
            ELSE recordsUpTo(i - 1)
    IN recordsUpTo(Len(imgs))

\* the numbers of the ids the database gave to inserted rows
UsedInserted(rows) == {r.id[2] : r \in {x \in Range(rows) : x.id[1] = "inserted"}}

\* product_images after .insert(validRecords)
RowsWith(rows, validRecords) ==
    LET ids == Fresh(UsedInserted(rows), Len(validRecords))
    IN rows \o [i \in DOMAIN validRecords |->
                   [id |-> <<"inserted", ids[i]>>, url |-> validRecords[i].url]]

\* onSubmit(data) with valid form data: uploads gives the outcome of every
\* upload, failing the requests that answer with an error
onSubmit(uploads, failing) ==
    LET featuredImageUrl == featuredImageUrlOf(images, uploads)
        validRecords == validRecordsOf(images, uploads)
        updated == [database EXCEPT !.featured_image_url = featuredImageUrl]
        deleted ==
            [updated EXCEPT !.product_images = RowsWithout(@, imagesToDelete)]
        inserted ==
            [deleted EXCEPT !.product_images = RowsWith(@, validRecords)]
    IN  /\ ~fetching
        /\ location = EditPage
        /\ Len(inserted.product_images) <= MaxRows
        /\ database' =
               IF "products.update" \in failing THEN database
               ELSE IF Len(imagesToDelete) > 0 /\ "product_images.delete" \in failing
               THEN updated
               ELSE IF Len(validRecords) > 0 /\ "product_images.insert" \in failing
               THEN deleted
               ELSE inserted
        /\ LET thrown ==
                   \/ "products.update" \in failing
                   \/ Len(imagesToDelete) > 0 /\ "product_images.delete" \in failing
                   \/ Len(validRecords) > 0 /\ "product_images.insert" \in failing
                   \/ "product_price_tiers" \in failing
           IN  IF thrown
               THEN /\ toasts' = <<ToastSaveError>>
                    /\ UNCHANGED location
               ELSE /\ toasts' = <<ToastSaved>>
                    /\ location' = Listings
        /\ UNCHANGED <<images, processingQueueRef, isProcessing, inflight, cropVars,
                       validationVars, urlVars, fetching, imagesToDelete>>

\* the manager is rendered once the product is loaded, until the page is left
Editing == ~fetching /\ location = EditPage

FetchProduct == \E ok \in BOOLEAN : fetchProduct(ok)

OnSubmit ==
    \E uploads \in [DOMAIN images -> UploadOutcomes], failing \in SUBSET Requests :
        /\ Cardinality(failing) <= 1
        /\ onSubmit(uploads, failing)

PageHandleFileSelect == Editing /\ HandleFileSelectCrop

PageResume == Editing /\ Resume

PageRemoveImage == Editing /\ RemoveImage /\ Len(imagesToDelete') <= MaxToDelete

PageSetFeaturedImage == Editing /\ SetFeaturedImage

----------------------------------------------------------------------------
(* Specifications *)

\* the manager mounted on an empty collection
Init ==
    /\ images = <<>>
    /\ processingQueueRef = FALSE
    /\ isProcessing = FALSE
    /\ inflight = <<>>
    /\ toasts = <<>>
    /\ imageToRecrop = <<>>
    /\ showCropper = FALSE
    /\ validation = NoValidation
    /\ second = NoValidation
    /\ comparison = NoComparison
    /\ hashing = <<>>
    /\ urlCache = EmptyMap
    /\ revoked = EmptyBag
    /\ blobCount = 0
    /\ fetching = FALSE
    /\ location = EditPage
    /\ database = NoDatabase
    /\ imagesToDelete = <<>>

Next ==
    \/ HandleFileSelect
    \/ HandleDrop
    \/ Resume
    \/ ResumeThrow
    \/ SetFeaturedImage
    \/ RemoveImage

Spec == Init /\ [][Next]_vars

\* a validateFiles call on a batch, options and existing files drawn from the
\* universe
\* the manager with its cropper: files are added and entries recropped
NextCrop ==
    \/ HandleFileSelectCrop
    \/ Resume
    \/ HandleRecropImage
    \/ HandleCropComplete
    \/ HandleCropCancel

SpecCrop == Init /\ [][NextCrop]_vars

InitValidate ==
    /\ images = <<>>
    /\ processingQueueRef = FALSE
    /\ isProcessing = FALSE
    /\ inflight = <<>>
    /\ toasts = <<>>
    /\ imageToRecrop = <<>>
    /\ showCropper = FALSE
    /\ second = NoValidation
    /\ comparison = NoComparison
    /\ hashing = <<>>
    /\ urlCache = EmptyMap
    /\ revoked = EmptyBag
    /\ blobCount = 0
    /\ fetching = FALSE
    /\ location = EditPage
    /\ database = NoDatabase
    /\ imagesToDelete = <<>>
    /\ \E files \in SeqsUpTo(FileUniverse, MaxBatch), options \in ValidationOptions :
           validation = [NoValidation EXCEPT !.files = files, !.options = options]

NextValidate == ValidateLoop

SpecValidate == InitValidate /\ [][NextValidate]_vars

InitTwoCalls ==
    /\ images = <<>>
    /\ processingQueueRef = FALSE
    /\ isProcessing = FALSE
    /\ inflight = <<>>
    /\ toasts = <<>>
    /\ imageToRecrop = <<>>
    /\ showCropper = FALSE
    /\ second = NoValidation
    /\ comparison = NoComparison
    /\ hashing = <<>>
    /\ urlCache = EmptyMap
    /\ revoked = EmptyBag
    /\ blobCount = 0
    /\ fetching = FALSE
    /\ location = EditPage
    /\ database = NoDatabase
    /\ imagesToDelete = <<>>
    /\ \E files \in TwoCallBatches, options \in TwoCallOptions :
           validation = [NoValidation EXCEPT !.files = files, !.options = options]

NextTwoCalls == ValidateLoop \/ SecondCall \/ SecondLoop

SpecTwoCalls == InitTwoCalls /\ [][NextTwoCalls]_vars

InitSignature ==
    /\ images = <<>>
    /\ processingQueueRef = FALSE
    /\ isProcessing = FALSE
    /\ inflight = <<>>
    /\ toasts = <<>>
    /\ imageToRecrop = <<>>
    /\ showCropper = FALSE
    /\ validation = NoValidation
    /\ second = NoValidation
    /\ hashing = <<>>
    /\ urlCache = EmptyMap
    /\ revoked = EmptyBag
    /\ blobCount = 0
    /\ fetching = FALSE
    /\ location = EditPage
    /\ database = NoDatabase
    /\ imagesToDelete = <<>>
    /\ \E file1 \in SignatureFiles, file2 \in SignatureFiles :
           comparison = [file1 |-> file1, file2 |-> file2, result |-> <<>>]

NextSignature == AreFilesIdentical

SpecSignature == InitSignature /\ [][NextSignature]_vars

InitHashing ==
    /\ images = <<>>
    /\ processingQueueRef = FALSE
    /\ isProcessing = FALSE
    /\ inflight = <<>>
    /\ toasts = <<>>
    /\ imageToRecrop = <<>>
    /\ showCropper = FALSE
    /\ validation = NoValidation
    /\ second = NoValidation
    /\ comparison = NoComparison
    /\ urlCache = EmptyMap
    /\ revoked = EmptyBag
    /\ blobCount = 0
    /\ fetching = FALSE
    /\ location = EditPage
    /\ database = NoDatabase
    /\ imagesToDelete = <<>>
    /\ \E files \in SeqsUpTo(HashFiles, MaxHashed) :
           \E outcomes \in [DOMAIN files -> HashOutcomes] :
               hashing = [k \in DOMAIN files |->
                             [file |-> files[k], outcome |-> outcomes[k], result |-> <<>>]]

NextHashing == GenerateFileHash

SpecHashing == InitHashing /\ [][NextHashing]_vars

\* the manager mounted on the collection of a fetched product
InitSeeded ==
    /\ images \in SeededCollections
    /\ processingQueueRef = FALSE
    /\ isProcessing = FALSE
    /\ inflight = <<>>
    /\ toasts = <<>>
    /\ imageToRecrop = <<>>
    /\ showCropper = FALSE
    /\ validation = NoValidation
    /\ second = NoValidation
    /\ comparison = NoComparison
    /\ hashing = <<>>
    /\ urlCache = EmptyMap
    /\ revoked = EmptyBag
    /\ blobCount = 0
    /\ fetching = FALSE
    /\ location = EditPage
    /\ database = NoDatabase
    /\ imagesToDelete = <<>>

\* files are offered to the manager; nothing else is done to the collection
NextSeeded == HandleFileSelect \/ HandleDrop \/ Resume \/ ResumeThrow

SpecSeeded == InitSeeded /\ [][NextSeeded]_vars

\* EditProductPage opened on a product: the product is fetched, the
\* collection is edited through the manager, the product is saved
InitPage ==
    /\ images = <<>>
    /\ processingQueueRef = FALSE
    /\ isProcessing = FALSE
    /\ inflight = <<>>
    /\ toasts = <<>>
    /\ imageToRecrop = <<>>
    /\ showCropper = FALSE
    /\ validation = NoValidation
    /\ second = NoValidation
    /\ comparison = NoComparison
    /\ hashing = <<>>
    /\ urlCache = EmptyMap
    /\ revoked = EmptyBag
    /\ blobCount = 0
    /\ fetching = TRUE
    /\ location = EditPage
    /\ database \in Databases
    /\ imagesToDelete = <<>>

NextPage ==
    \/ FetchProduct
    \/ PageHandleFileSelect
    \/ PageResume
    \/ PageRemoveImage
    \/ PageSetFeaturedImage
    \/ OnSubmit

SpecPage == InitPage /\ [][NextPage]_vars

\* the manager of part_001 mounted on an empty collection or on the
\* collection of a product with a featured image
InitCached ==
    /\ images \in {<<>>, <<FeaturedExisting>>}
    /\ processingQueueRef = FALSE
    /\ isProcessing = FALSE
    /\ inflight = <<>>
    /\ toasts = <<>>
    /\ imageToRecrop = <<>>
    /\ showCropper = FALSE
    /\ validation = NoValidation
    /\ second = NoValidation
    /\ comparison = NoComparison
    /\ hashing = <<>>
    /\ urlCache = EmptyMap
    /\ revoked = EmptyBag
    /\ blobCount = 0
    /\ fetching = FALSE
    /\ location = EditPage
    /\ database = NoDatabase
    /\ imagesToDelete = <<>>

NextCached ==
    \/ HandleFileSelectCached
    \/ HashSettles
    \/ ResumeCached
    \/ ResumeThrow
    \/ RemoveImageCached
    \/ HandleRecropImage
    \/ HandleCropCompleteCached
    \/ HandleCropCancel

SpecCached == InitCached /\ [][NextCached]_vars

\* the manager of part_001 without its cropper: files are validated by
\* content hash and added, entries are removed
NextHashed ==
    \/ HandleFileSelectCached
    \/ HashSettles
    \/ ResumeCached
    \/ RemoveImageCached

SpecHashed == InitCached /\ [][NextHashed]_vars

----------------------------------------------------------------------------
(* Properties of the image manager *)

FeaturedCount(imgs) == Cardinality({i \in DOMAIN imgs : imgs[i].isFeatured})

\* C1: a non-empty collection has exactly one featured entry, and an empty
\* collection has none, after any sequence of addFiles, remove and setFeatured
\* calls with any id arguments.
C1_FeaturedInvariant ==
    /\ Len(images) > 0 => FeaturedCount(images) = 1
    /\ Len(images) = 0 => FeaturedCount(images) = 0

\* C2: at most one handleFileSelect call is in flight at any moment: no call
\* passes the guard while another one is suspended.
C2_SingleFlight == Len(inflight) <= 1

\* a call is suspended in validation and a second call has just been turned away
C2_Witness ==
    /\ Len(inflight) = 1
    /\ toasts = <<ToastBusy>>

\* C3: the guard is held exactly while a handleFileSelect call is in flight:
\* from its acquisition, across the suspension, and released on every exit
\* (added, no capacity, no valid file, exception), so that a call made when no
\* call is in flight finds the guard free.
C3_GuardHeldWhileInFlight ==
    /\ processingQueueRef <=> Len(inflight) > 0
    /\ isProcessing <=> processingQueueRef

\* a call has ended in the catch block and the guard is free again
C3_Witness ==
    /\ toasts = <<ToastFailed>>
    /\ Len(inflight) = 0
    /\ ~processingQueueRef
    /\ ~isProcessing

\* C4: a handleFileSelect call made while another call is in flight is turned
\* away and changes nothing: the collection, the guard, the processing flag
\* and the suspended call stay as they are, so nothing is queued and the next
\* call is turned away as well.
C4_RejectedCallChangesNothing ==
    [][(Len(inflight) > 0 /\ (HandleFileSelect \/ HandleDrop))
           => /\ toasts' = <<ToastBusy>>
              /\ UNCHANGED <<images, processingQueueRef, isProcessing, inflight>>]_vars

\* a call turned away while the in-flight call holds a non-empty collection
C4_Witness ==
    /\ toasts = <<ToastBusy>>
    /\ processingQueueRef
    /\ isProcessing
    /\ Len(inflight) = 1
    /\ Len(images) > 0

----------------------------------------------------------------------------
(* Properties of validateFiles, under SpecValidate *)

Count(seq, x) == Cardinality({i \in DOMAIN seq : seq[i] = x})

NamesOf(seq) == [i \in DOMAIN seq |-> seq[i].name]

\* the candidates the loop has gone through
Processed == SubSeq(validation.files, 1, validation.i - 1)

\* the candidate the next loop iteration takes
Candidate == validation.files[validation.i]

ResultNow == validation.st.result

ResultNext == validation'.st.result

\* C5: the three buckets partition the candidates gone through: their sizes
\* sum to the number of candidates, and every name occurs in the buckets as
\* often as among the candidates.
C5_Partition ==
    /\ Len(ResultNow.validFiles) + Len(ResultNow.duplicates) + Len(ResultNow.invalid)
           = Len(Processed)
    /\ \A name \in {f.name : f \in FileUniverse} :
           Count(NamesOf(ResultNow.validFiles), name)
               + Count(ResultNow.duplicates, name)
               + Count(NamesOf(ResultNow.invalid), name)
           = Count(NamesOf(Processed), name)

\* a finished call on three candidates, one in each bucket
C5_Witness ==
    /\ validationDone
    /\ Len(validation.files) = 3
    /\ Len(ResultNow.validFiles) = 1
    /\ Len(ResultNow.duplicates) = 1
    /\ Len(ResultNow.invalid) = 1

\* the elements of seq whose position carries tag, in the order of seq
Pick(seq, tagOf, tag) ==
    LET carries(i) == tagOf[i] = tag
        positions == SelectSeq([i \in DOMAIN seq |-> i], carries)
    IN [k \in DOMAIN positions |-> seq[positions[k]]]

\* C6: each bucket lists its candidates in input order: some assignment of
\* the candidates to the buckets yields every bucket as the candidates
\* assigned to it, in the order of the input.
C6_OrderPreserved ==
    validationDone =>
        \E tagOf \in [DOMAIN validation.files -> {"valid", "duplicate", "invalid"}] :
            /\ ResultNow.validFiles = Pick(validation.files, tagOf, "valid")
            /\ ResultNow.duplicates = NamesOf(Pick(validation.files, tagOf, "duplicate"))
            /\ NamesOf(ResultNow.invalid) = NamesOf(Pick(validation.files, tagOf, "invalid"))

\* a finished call with two entries in a bucket, of different names
C6_Witness ==
    /\ validationDone
    /\ Len(ResultNow.validFiles) = 2
    /\ ResultNow.validFiles[1].name # ResultNow.validFiles[2].name
    /\ Len(ResultNow.invalid) = 1

\* C7: the checks are made in the order size, type, existing, batch and the
\* first that fails decides: an oversize candidate gets the size reason
\* whatever its type and identity, a candidate of a type not allowed gets the
\* type reason whatever its identity, and only then is a candidate whose
\* signature exists reported as a duplicate.
C7_CheckOrder ==
    [][LET file == Candidate
           maxSize == maxFileSizeOf(validation.options)
           oversize == file.size > maxSize * 1024 * 1024
           typeOk == TypeAllowed(file, allowedTypesOf(validation.options))
       IN  /\ oversize =>
                 /\ ResultNext.invalid = Append(ResultNow.invalid,
                        [name |-> file.name, reason |-> SizeReason(maxSize)])
                 /\ ResultNext.validFiles = ResultNow.validFiles
                 /\ ResultNext.duplicates = ResultNow.duplicates
           /\ (~oversize /\ ~typeOk) =>
                 /\ ResultNext.invalid = Append(ResultNow.invalid,
                        [name |-> file.name, reason |-> TypeReason])
                 /\ ResultNext.validFiles = ResultNow.validFiles
                 /\ ResultNext.duplicates = ResultNow.duplicates
           /\ (~oversize /\ typeOk) => ResultNext.invalid = ResultNow.invalid
      ]_vars

\* an oversize video and a video, both also in the existing files, reported
\* with the size reason and the type reason
C7_Witness ==
    /\ validationDone
    /\ validation.files = <<FileBigVideo, FileVideo>>
    /\ existingFilesOf(validation.options) = <<FileOverLimit, FileVideo, FileBigVideo>>
    /\ ResultNow.invalid =
           <<[name |-> NameD, reason |-> SizeReason(maxFileSizeOf(validation.options))],
             [name |-> NameC, reason |-> TypeReason]>>
    /\ ResultNow.duplicates = <<>>

\* C8: a candidate is reported with the size reason exactly when its size is
\* greater than maxFileSize * 1024 * 1024.
C8_SizeLimit ==
    [][LET file == Candidate
           maxSize == maxFileSizeOf(validation.options)
       IN  (ResultNext.invalid = Append(ResultNow.invalid,
                [name |-> file.name, reason |-> SizeReason(maxSize)]))
           <=> (file.size > maxSize * 1048576)
      ]_vars

\* under the default limit of 5 the file of 5242880 bytes is accepted and the
\* file of 5242881 bytes gets the size reason
C8_Witness ==
    /\ validationDone
    /\ "maxFileSize" \notin DOMAIN validation.options
    /\ validation.files = <<FileAtLimit, FileOverLimit>>
    /\ FileAtLimit.size = 5242880
    /\ FileOverLimit.size = 5242881
    /\ ResultNow.validFiles = <<FileAtLimit>>
    /\ ResultNow.invalid = <<[name |-> NameB, reason |-> SizeReason(5)]>>

\* the type test as the specification words it: the type is an allowed entry,
\* or the part before '/' equals the part before '/' of an allowed entry
TypeMatchesByPrefixPart(file, allowedTypes) ==
    \E k \in DOMAIN allowedTypes :
        \/ file.type = allowedTypes[k]
        \/ SplitFirst(file.type) = SplitFirst(allowedTypes[k])

\* C9: a candidate within the size limit passes the type check exactly when
\* its type is an allowed entry or the part of its type before '/' equals the
\* part before '/' of an allowed entry; any other gets the type reason.
C9_TypeCheck ==
    [][LET file == Candidate
           maxSize == maxFileSizeOf(validation.options)
       IN  file.size <= maxSize * 1024 * 1024 =>
               ((ResultNext.invalid = ResultNow.invalid)
                <=> TypeMatchesByPrefixPart(file, allowedTypesOf(validation.options)))
      ]_vars

\* C10: a candidate that passes the size and type checks and whose signature
\* is the signature of an existing file is appended to duplicates and not to
\* validFiles, whatever its content.
C10_DuplicateOfExisting ==
    [][LET file == Candidate
           maxSize == maxFileSizeOf(validation.options)
           existing == Range(existingFilesOf(validation.options))
       IN  (/\ ~SizeExceeds(file, maxSize)
            /\ TypeAllowed(file, allowedTypesOf(validation.options))
            /\ \E e \in existing : createFileSignature(e) = createFileSignature(file))
           => /\ ResultNext.duplicates = Append(ResultNow.duplicates, file.name)
              /\ ResultNext.validFiles = ResultNow.validFiles
              /\ ResultNext.invalid = ResultNow.invalid
      ]_vars

\* a candidate reported as a duplicate of an existing file of other content
C10_Witness ==
    /\ validationDone
    /\ validation.files = <<FileA>>
    /\ existingFilesOf(validation.options) = <<FileATwin>>
    /\ FileA.content # FileATwin.content
    /\ ResultNow.duplicates = <<NameA>>
    /\ ResultNow.validFiles = <<>>


\* the candidate at position i passes the size and the type check and its
\* signature is not among the existing files
Eligible(i) ==
    LET file == validation.files[i]
    IN  /\ ~SizeExceeds(file, maxFileSizeOf(validation.options))
        /\ TypeAllowed(file, allowedTypesOf(validation.options))
        /\ \A e \in Range(existingFilesOf(validation.options)) :
               createFileSignature(e) # createFileSignature(file)

\* an eligible candidate stands before position i with the same signature
OccursEarlier(i) ==
    \E j \in 1..(i - 1) :
        /\ Eligible(j)
        /\ createFileSignature(validation.files[j]) = createFileSignature(validation.files[i])

\* the candidate at position i passes the size and the type check and its
\* signature is among the existing files
DuplicateOfExisting(i) ==
    LET file == validation.files[i]
    IN  /\ ~SizeExceeds(file, maxFileSizeOf(validation.options))
        /\ TypeAllowed(file, allowedTypesOf(validation.options))
        /\ \E e \in Range(existingFilesOf(validation.options)) :
               createFileSignature(e) = createFileSignature(file)

\* C11: within one call, among the candidates that pass the size and the
\* type check and are not in the existing set, the first occurrence of each
\* signature is in validFiles and every later occurrence is in duplicates,
\* so that validFiles never holds two files of one signature.
C11_FirstOccurrenceWins ==
    LET tagOf == [i \in DOMAIN Processed |->
                     IF Eligible(i) /\ ~OccursEarlier(i) THEN "valid"
                     ELSE IF Eligible(i) \/ DuplicateOfExisting(i) THEN "duplicate"
                     ELSE "invalid"]
    IN  /\ ResultNow.validFiles = Pick(Processed, tagOf, "valid")
        /\ ResultNow.duplicates = NamesOf(Pick(Processed, tagOf, "duplicate"))
        /\ \A a, b \in DOMAIN ResultNow.validFiles :
               a # b => createFileSignature(ResultNow.validFiles[a])
                            # createFileSignature(ResultNow.validFiles[b])

\* a finished call on a file, another file and a file of the signature of
\* the first, with no existing files
C11_Witness ==
    /\ validationDone
    /\ validation.files = <<FileA, FileAtLimit, FileATwin>>
    /\ existingFilesOf(validation.options) = <<>>
    /\ ResultNow.validFiles = <<FileA, FileAtLimit>>
    /\ ResultNow.duplicates = <<NameA>>


\* C14: validateFiles leaves its inputs unchanged: every step of a call
\* leaves the candidate sequence, the options and the existing files with
\* the same elements in the same order.
C14_InputsUnchanged ==
    [][/\ validation'.files = validation.files
       /\ validation'.options = validation.options
       /\ existingFilesOf(validation'.options) = existingFilesOf(validation.options)]_vars

\* a finished call on three candidates with existing files that filled
\* more than one bucket
C14_Witness ==
    /\ validationDone
    /\ Len(validation.files) = 3
    /\ Len(existingFilesOf(validation.options)) = 3
    /\ ResultNow.validFiles # <<>>
    /\ ResultNow.duplicates # <<>>

----------------------------------------------------------------------------
(* Properties of two validateFiles calls, under SpecTwoCalls *)

\* both calls are finished, on the same batch of one file, and the first
\* call accepted the file
SameSingleFileTwice ==
    /\ validationDone
    /\ secondDone
    /\ Len(validation.files) = 1
    /\ second.files = validation.files
    /\ validation.st.result.validFiles = validation.files

\* C12: validating the same single-file batch twice against an unchanged
\* existing set yields valid the first time and duplicate the second time.
C12_Idempotence ==
    (SameSingleFileTwice /\ second.options = validation.options) =>
        /\ second.st.result.validFiles = <<>>
        /\ second.st.result.duplicates = NamesOf(second.files)

\* C12 as the code has it: the second call against unchanged options gives
\* the result of the first, valid again; the file is a duplicate the second
\* time only if the existing set of the second call holds its signature,
\* and it is one when the accepted file was added to the existing set.
C12_SameResultTwice ==
    SameSingleFileTwice =>
        /\ second.options = validation.options =>
               second.st.result = validation.st.result
        /\ second.st.result.duplicates # <<>> =>
               \E e \in Range(existingFilesOf(second.options)) :
                   createFileSignature(e) = createFileSignature(second.files[1])
        /\ second.options = OptionsAfterFirst =>
               /\ second.st.result.validFiles = <<>>
               /\ second.st.result.duplicates = NamesOf(second.files)

\* the same file validated twice with the same options and accepted twice
C12_Witness ==
    /\ SameSingleFileTwice
    /\ second.options = validation.options
    /\ second.st.result.validFiles = validation.files

\* the same file validated again with the accepted file among the existing
\* files, and reported as a duplicate
C12_WitnessAfterFirst ==
    /\ SameSingleFileTwice
    /\ second.options = OptionsAfterFirst
    /\ second.st.result.duplicates = NamesOf(second.files)

\* the signatures of the files a call has accepted
AcceptedSignatures(call) ==
    {createFileSignature(f) : f \in Range(call.st.result.validFiles)}

\* C13: each call has its own accepted-signature set: at every point a
\* call holds the signatures it accepted itself and nothing else, and its
\* state is what its own arguments give, whatever the other call has done.
C13_BatchLocalSet ==
    /\ validation.st.processedSignatures = AcceptedSignatures(validation)
    /\ validation.st =
           LoopFrom(EmptyLoopState, SubSeq(validation.files, 1, validation.i - 1),
                    1, validation.options)
    /\ secondStarted =>
           /\ second.st.processedSignatures = AcceptedSignatures(second)
           /\ second.st =
                  LoopFrom(EmptyLoopState, SubSeq(second.files, 1, second.i - 1),
                           1, second.options)

\* two calls with the same existing files, both in their loop, that have
\* each accepted a file of the same signature
C13_Witness ==
    /\ secondStarted
    /\ ~validationDone
    /\ ~secondDone
    /\ second.options = validation.options
    /\ existingFilesOf(validation.options) # <<>>
    /\ validation.st.result.validFiles # <<>>
    /\ AcceptedSignatures(second) = AcceptedSignatures(validation)

----------------------------------------------------------------------------
(* Properties of createFileSignature, under SpecSignature *)

SameFourFields(file1, file2) ==
    /\ file1.name = file2.name
    /\ file1.size = file2.size
    /\ file1.type = file2.type
    /\ file1.lastModified = file2.lastModified

HasSeparator(s) == \E i \in DOMAIN s : s[i] = "|"

SeparatorFree(file) == ~HasSeparator(file.name) /\ ~HasSeparator(file.type)

\* C15: the signature is a function of name, size, type and lastModified:
\* two files with the same four fields compare as identical, and two files
\* without the separator in name and type that differ in one of the four
\* fields do not.
C15_SignatureOfFourFields ==
    comparison.result # <<>> =>
        /\ SameFourFields(comparison.file1, comparison.file2) => comparison.result[1]
        /\ (/\ SeparatorFree(comparison.file1)
            /\ SeparatorFree(comparison.file2)
            /\ ~SameFourFields(comparison.file1, comparison.file2))
               => ~comparison.result[1]

\* two files that differ in lastModified only, compared and found different
C15_Witness ==
    /\ comparison.file1 = FileA
    /\ comparison.file2 = File(NameA, 1, ImagePng, 11, 1)
    /\ comparison.result = <<FALSE>>

----------------------------------------------------------------------------
(* Properties of the operations on the collection, under Spec *)

\* the step is the end of a handleFileSelect call that adds entries
AddCompletes ==
    /\ Len(inflight) = 1
    /\ inflight' = <<>>
    /\ toasts' # <<>>
    /\ toasts'[Len(toasts')].kind = "imagem(ns) adicionada(s)"

\* the entries of seq from position k + 1 on
Drop(seq, k) == SubSeq(seq, k + 1, Len(seq))

\* C16: an add marks the first entry it creates as featured if and only if
\* the collection was empty before the call, leaves every other entry it
\* creates unfeatured, and leaves the isFeatured flag of every entry
\* already in the collection as it was.
C16_AddFeaturedRule ==
    [][AddCompletes =>
          LET before == inflight[1].images
              created == Drop(images', Len(before))
          IN  /\ Len(images') > Len(before)
              /\ created[1].isFeatured <=> (before = <<>>)
              /\ \A i \in DOMAIN created : i > 1 => ~created[i].isFeatured
              /\ \A m \in Range(images) :
                     \E n \in Range(images') :
                         n.id = m.id /\ n.isFeatured = m.isFeatured]_vars

\* the entries without the identity of the objects that hold them
Visible(imgs) ==
    [i \in DOMAIN imgs |->
        [id |-> imgs[i].id, url |-> imgs[i].url, file |-> imgs[i].file,
         isFeatured |-> imgs[i].isFeatured]]

IdsOf(imgs) == {m.id : m \in Range(imgs)}

\* C17: setFeatured with an id that no entry has changes nothing: every
\* entry, its isFeatured flag included, is the same after the call.
C17_AbsentIdIsNoOp ==
    [][\A imageId \in IdArguments \ IdsOf(images) :
           setFeaturedImage(imageId) => Visible(images') = Visible(images)]_vars

\* C18: setFeatured with the id of an entry leaves that entry featured and
\* no other, and changes nothing else: the number of entries, their order,
\* ids, urls and files are the same, and a second call with the same id
\* would change nothing.
C18_SetFeaturedFrame ==
    [][\A imageId \in IdsOf(images) :
           setFeaturedImage(imageId) =>
               /\ Len(images') = Len(images)
               /\ \A i \in DOMAIN images :
                      /\ images'[i].id = images[i].id
                      /\ images'[i].url = images[i].url
                      /\ images'[i].file = images[i].file
                      /\ images'[i].mediaType = images[i].mediaType
                      /\ images'[i].isFeatured <=> (images[i].id = imageId)
               /\ FeaturedCount(images') = 1
               /\ Visible(featuredImagesOf(images', imageId)) = Visible(images')]_vars

\* two entries of which the second has been made the featured one
C18_Witness ==
    /\ Len(images) = 2
    /\ ~images[1].isFeatured
    /\ images[2].isFeatured
    /\ toasts = <<>>

NamesIn(toast) ==
    IF toast.kind = "invalid" THEN {toast.detail[1]}
    ELSE IF toast.kind = "Imagens duplicadas ignoradas" THEN Range(toast.detail)
    ELSE {}

\* C24: with r > 0 slots left, an add passes to the validator the first
\* min(n, r) of its n candidates, in input order; the candidates after them
\* are not classified, not reported and not added.
C24_LeadingCandidatesOnly ==
    [][/\ \A files \in FileLists :
              (/\ handleFileSelect(files)
               /\ ~processingQueueRef
               /\ maxImages - Len(images) > 0) =>
                  LET r == maxImages - Len(images)
                      n == Len(files)
                      m == IF n < r THEN n ELSE r
                  IN  /\ Len(inflight') = Len(inflight) + 1
                      /\ inflight'[Len(inflight')].filesToAdd = SubSeq(files, 1, m)
       /\ \A k \in DOMAIN inflight :
              ResumeFileSelect(k) =>
                  LET passed == inflight[k].filesToAdd
                      created == Drop(images', Len(inflight[k].images))
                  IN  /\ \A t \in Range(toasts') :
                             NamesIn(t) \subseteq {f.name : f \in Range(passed)}
                      /\ images' # images =>
                             \A e \in Range(created) : e.file \in Range(passed)]_vars

\* three candidates offered to the empty collection of two slots: the first
\* two were added, nothing is said about the third
C24_Witness ==
    /\ Len(images) = 2
    /\ images[1].file = FileA
    /\ images[2].file = FileAtLimit
    /\ toasts = <<ToastAdded(<<FileA, FileAtLimit>>)>>

\* C25: an add that finds no slot left, the collection holding maxImages
\* entries or more, reports the limit, does not reach the validator and
\* leaves the collection as it is.
C25_NoCapacityFails ==
    [][\A files \in FileLists :
           (/\ handleFileSelect(files)
            /\ ~processingQueueRef
            /\ Len(images) >= maxImages) =>
               /\ toasts' = <<ToastLimit>>
               /\ inflight' = inflight
               /\ images' = images]_vars

ClassifiedBy(call) ==
    validateFiles(call.filesToAdd,
        [maxFileSize |-> maxFileSize,
         allowedTypes |-> <<ImagePng, ImageJpeg, ImageWebp, ImageJpg>>,
         existingFiles |-> call.existingFiles])

FilesOf(imgs) == [i \in DOMAIN imgs |-> imgs[i].file]

\* C27: invalid candidates and duplicates do not abort a batch: when the
\* validator accepts at least one candidate, every accepted candidate is
\* appended to the collection, however many others are turned away.
C27_ValidPortionAdded ==
    [][\A k \in DOMAIN inflight :
           (ResumeFileSelect(k) /\ ClassifiedBy(inflight[k]).validFiles # <<>>) =>
               /\ Len(images') = Len(inflight[k].images)
                      + Len(ClassifiedBy(inflight[k]).validFiles)
               /\ FilesOf(Drop(images', Len(inflight[k].images)))
                      = ClassifiedBy(inflight[k]).validFiles]_vars

\* a batch of a file that is not allowed and a file that is: the second
\* was added and the first reported
C27_Witness ==
    /\ Len(images) = 1
    /\ images[1].file = FileAtLimit
    /\ Len(toasts) = 2
    /\ toasts[1] = ToastInvalid([name |-> NameC, reason |-> TypeReason])
    /\ toasts[2] = ToastAdded(<<FileAtLimit>>)

\* the notifications of seq that report candidates turned away for reason
ToastsFor(seq, reason) ==
    {i \in DOMAIN seq : seq[i].kind = "invalid" /\ seq[i].detail[2] = reason}

\* C28: one add surfaces at most one notification for each reason, size,
\* type and duplicate, however many candidates are turned away for it.
C28_OneToastPerReason ==
    [][\A k \in DOMAIN inflight :
           ResumeFileSelect(k) =>
               /\ Cardinality(ToastsFor(toasts', SizeReason(maxFileSize))) <= 1
               /\ Cardinality(ToastsFor(toasts', TypeReason)) <= 1
               /\ Cardinality({i \in DOMAIN toasts' :
                      toasts'[i].kind = "Imagens duplicadas ignoradas"}) <= 1]_vars

\* C29: the ids of the entries of the collection are pairwise distinct, the
\* persisted entries loaded at the start and the entries added since.
C29_IdsDistinct ==
    \A i, j \in DOMAIN images : images[i].id = images[j].id => i = j

\* an added entry stands behind the persisted featured entry
C29_Witness ==
    /\ Len(images) = 2
    /\ images[1] = FeaturedExisting
    /\ images[2].id[1] = "new"

----------------------------------------------------------------------------
(* Properties of recropping, under SpecCrop *)

\* C20: recropping an entry of the collection replaces the file and the url
\* of that entry and nothing else: its id, its isFeatured flag and its
\* position stay, the number of entries stays, and every other entry is
\* the entry it was.
C20_RecropFrame ==
    [][\A croppedBlob \in CroppedBlobs :
           (/\ handleCropComplete(croppedBlob)
            /\ imageToRecrop[1].id \in IdsOf(images)) =>
               /\ Len(images') = Len(images)
               /\ \A i \in DOMAIN images :
                      IF images[i].id = imageToRecrop[1].id
                      THEN /\ images'[i].id = images[i].id
                           /\ images'[i].isFeatured = images[i].isFeatured
                           /\ images'[i].mediaType = images[i].mediaType
                           /\ images'[i].file # images[i].file
                           /\ images'[i].file.type = ImageJpeg
                           /\ images'[i].file.content = croppedBlob.content
                           /\ images'[i].url \notin {m.url : m \in Range(images)}
                      ELSE images'[i] = images[i]]_vars

\* two entries of which the featured first has just been recropped
C20_Witness ==
    /\ Len(images) = 2
    /\ images[1].isFeatured
    /\ images[1].file.name[1] = "recropped-"
    /\ images[2].file = FileGif
    /\ ~images[2].isFeatured
    /\ toasts = <<ToastCropped>>
    /\ imageToRecrop = <<>>

----------------------------------------------------------------------------
(* Properties of the urls of the entries, under SpecCached *)

RevokedUrls == BagToSet(revoked)

\* the urls URL.createObjectURL has handed out
CreatedUrls == {<<"blob", n>> : n \in 1..blobCount}

\* C21: after a recrop of an entry of the collection, also of one that was
\* recropped or added as a pending file before, the url of the entry is a
\* live url created for the new file, and the url of the previous content,
\* if it was a local one, has been released.
C21_RecropUrlLive ==
    [][\A croppedBlob \in CroppedBlobs :
           handleCropCompleteCached(croppedBlob) =>
               \A i \in DOMAIN images :
                   images[i].id = imageToRecrop[1].id =>
                       /\ images'[i].url \notin BagToSet(revoked')
                       /\ images'[i].url \notin CreatedUrls
                       /\ images[i].url \in CreatedUrls =>
                              images[i].url \in BagToSet(revoked')]_vars

\* the urls some entry of the collection shows
ShownUrls == {m.url : m \in Range(images)}

\* C22: every local url is released exactly once, when its entry is removed
\* or its content replaced: no url is released twice, and a url that no
\* entry of the collection shows any more has been released.
C22_ReleasedExactlyOnce ==
    /\ \A url \in RevokedUrls : CopiesIn(url, revoked) = 1
    /\ \A url \in CreatedUrls \ ShownUrls : url \in RevokedUrls

\* C23: the url of an entry of the collection, and of the entry the crop
\* dialog shows, has not been revoked.
C23_ShownUrlsLive ==
    /\ \A m \in Range(images) : m.url \notin RevokedUrls
    /\ \A m \in Range(imageToRecrop) : m.url \notin RevokedUrls

----------------------------------------------------------------------------
(* Properties of generateFileHash, under SpecHashing *)

\* the value of a hex digit
HexValue(c) == (CHOOSE i \in DOMAIN HexChars : HexChars[i] = c) - 1

\* s is the hex encoding of bytes, two digits a byte
IsHexOf(s, bytes) ==
    /\ Len(s) = 2 * Len(bytes)
    /\ \A i \in DOMAIN s : \E j \in DOMAIN HexChars : HexChars[j] = s[i]
    /\ \A k \in DOMAIN bytes :
           16 * HexValue(s[2 * k - 1]) + HexValue(s[2 * k]) = bytes[k]

\* C30: generateFileHash never fails: a call whose read or digest fails
\* resolves to the weak signature of its file, a call whose digest succeeds
\* resolves to the hex encoding of the digest, and the outcome of one call
\* does not touch the result of another.
C30_HashFallback ==
    \A k \in DOMAIN hashing :
        hashing[k].result # <<>> =>
            LET file == hashing[k].file
                result == hashing[k].result[1]
            IN  IF hashing[k].outcome = "ok"
                THEN IsHexOf(result, Sha256(file.content))
                ELSE result = file.name \o <<"|">> \o Dec(file.size) \o <<"|">>
                                  \o file.type \o <<"|">> \o Dec(file.lastModified)

\* two calls, the first failed and fell back to the signature, the second
\* succeeded after it
C30_Witness ==
    /\ Len(hashing) = 2
    /\ hashing[1].outcome = "arrayBuffer rejects"
    /\ hashing[1].result = <<createFileSignature(hashing[1].file)>>
    /\ hashing[2].outcome = "ok"
    /\ hashing[2].result # <<>>
    /\ hashing[2].result # hashing[1].result

----------------------------------------------------------------------------
(* Properties of the validation by content hash, under SpecCached *)

\* b is s with some of its elements left out
IsSubSeq(b, s) ==
    \E f \in [DOMAIN b -> DOMAIN s] :
        /\ \A i \in DOMAIN b : b[i] = s[f[i]]
        /\ \A i, j \in DOMAIN b : i < j => f[i] < f[j]

\* what validateFilesWithHash makes of the candidates a suspended call
\* passed, the hash computations having settled as hashing records
ClassifiedWithHash(call) ==
    validateFilesWithHash(call.filesToAdd,
        [maxFileSize |-> maxFileSize,
         allowedTypes |-> <<ImagePng, ImageJpeg, ImageWebp, ImageJpg>>,
         existingFiles |-> call.existingFiles,
         existingHashes |-> call.existingHashes],
        hashing)

\* C31: in whatever order the hash computations of the candidates settle,
\* each bucket of the classification lists its candidates in the order of
\* the input, and the entries appended to the collection are the accepted
\* files in that order.
C31_InputOrderKept ==
    [][\A k \in DOMAIN inflight :
           ResumeFileSelectCached(k) =>
               LET call == inflight[k]
                   result == ClassifiedWithHash(call)
               IN  /\ IsSubSeq(result.validFiles, call.filesToAdd)
                   /\ IsSubSeq(result.duplicates, NamesOf(call.filesToAdd))
                   /\ IsSubSeq(NamesOf(result.invalid), NamesOf(call.filesToAdd))
                   /\ result.validFiles # <<>> =>
                          /\ FilesOf(Drop(images', Len(call.images))) = result.validFiles
                          /\ IsSubSeq(FilesOf(Drop(images', Len(call.images))),
                                      call.filesToAdd)]_vars

\* the hash of the second candidate settled before that of the first, and
\* both candidates were added
C31_Witness ==
    /\ inflight = <<>>
    /\ Len(hashing) = 2
    /\ hashing[1].index = 2
    /\ hashing[2].index = 1
    /\ FilesOf(images) = <<FileA, FileATwin>>

\* the identities generateFileHash can give a file
IdentitiesOf(file) == {generateFileHash(file, outcome) : outcome \in HashOutcomes}

\* C37: the fileHash of every entry that carries a file is an identity of
\* that file, its content hash or, where hashing failed, its signature.
C37_HashOfCurrentFile ==
    \A i \in DOMAIN images :
        images[i].file # NoFile =>
            /\ "fileHash" \in DOMAIN images[i]
            /\ images[i].fileHash \in IdentitiesOf(images[i].file)

----------------------------------------------------------------------------
(* Properties of the frame of adding and removing *)

\* the entries of imgs whose id is in ids, in the order of imgs
WithIds(imgs, ids) ==
    LET isIn(m) == m.id \in ids
    IN SelectSeq(imgs, isIn)

\* C32: an add that succeeds puts the accepted files at the end of the
\* collection in the order of validFiles, each as an entry with a fresh id
\* that starts with new- and with the accepted file as its file; the entries
\* the collection holds at the time of the update keep their fields and
\* their relative order.
C32_AddFrame ==
    [][\A k \in DOMAIN inflight :
           (ResumeFileSelect(k) /\ ClassifiedBy(inflight[k]).validFiles # <<>>) =>
               LET validFiles == ClassifiedBy(inflight[k]).validFiles
                   created == Drop(images', Len(images') - Len(validFiles))
               IN  /\ FilesOf(created) = validFiles
                   /\ \A i \in DOMAIN created :
                          /\ created[i].id[1] = "new"
                          /\ created[i].id \notin IdsOf(images)
                          /\ \A j \in DOMAIN created :
                                 created[i].id = created[j].id => i = j
                   /\ Visible(WithIds(images', IdsOf(images))) = Visible(images)]_vars

\* C34: a removal, a change of the featured entry or a recrop made while an
\* add is suspended is kept: when the add finishes, the collection is the
\* collection as it stood just before, followed by the new entries.
C34_UpdatesNotLost ==
    [][\A k \in DOMAIN inflight :
           (ResumeFileSelect(k) /\ ClassifiedBy(inflight[k]).validFiles # <<>>) =>
               /\ Len(images') = Len(images) + Len(ClassifiedBy(inflight[k]).validFiles)
               /\ Visible(SubSeq(images', 1, Len(images))) = Visible(images)]_vars

\* the entries without their isFeatured flags
Unflagged(imgs) ==
    [i \in DOMAIN imgs |->
        [id |-> imgs[i].id, url |-> imgs[i].url, file |-> imgs[i].file]]

----------------------------------------------------------------------------
(* Properties of EditProductPage, under SpecPage *)

\* C35: the collection fetchProduct publishes has exactly one featured entry
\* when it is not empty, whether the product has a featured_image_url or
\* not and however many rows of product_images it has, and none of its
\* entries has a file.
C35_SeededFeatured ==
    [][fetchProduct(TRUE) =>
          /\ Len(images') > 0 => FeaturedCount(images') = 1
          /\ \A i \in DOMAIN images' : images'[i].file = NoFile]_vars

\* the signatures of the files of the entries of imgs that have a file
PendingSignatures(imgs) ==
    {createFileSignature(imgs[i].file) : i \in {j \in DOMAIN imgs : imgs[j].file # NoFile}}

\* the candidate passes the checks when it is validated alone
ValidAlone(file) ==
    validateFiles(<<file>>,
        [maxFileSize |-> maxFileSize,
         allowedTypes |-> <<ImagePng, ImageJpeg, ImageWebp, ImageJpg>>,
         existingFiles |-> <<>>]).validFiles = <<file>>

\* C36: the reference set an add hands to the validator is the files of the
\* entries that have one, as the collection is when the add is called;
\* entries without a file give it nothing, and a file whose entry has been
\* removed is accepted and added when it is offered again.
C36_ReferenceSet ==
    [][/\ Len(inflight') > Len(inflight) =>
              LET call == inflight'[Len(inflight')]
                  pending == {i \in DOMAIN images : images[i].file # NoFile}
              IN  /\ Len(call.existingFiles) = Cardinality(pending)
                  /\ \A i \in pending : images[i].file \in Range(call.existingFiles)
                  /\ Range(call.existingFiles) \subseteq {images[i].file : i \in pending}
       /\ \A k \in DOMAIN inflight :
              ResumeFileSelect(k) =>
                  LET call == inflight[k]
                      files == call.filesToAdd
                      added == Range(FilesOf(Drop(images', Len(call.images))))
                  IN  \A i \in DOMAIN files :
                          (/\ ValidAlone(files[i])
                           /\ createFileSignature(files[i])
                                  \notin PendingSignatures(call.images)
                           /\ \A j \in 1..(i - 1) :
                                  createFileSignature(files[j])
                                      # createFileSignature(files[i]))
                              => /\ images' # images
                                 /\ files[i] \in added]_vars

\* a.png was added first and removed, b.jpg holds the second id, and a.png
\* was accepted again and holds the id that had become free
C36_Witness ==
    /\ Len(images) = 2
    /\ images[1].file = FileAtLimit
    /\ images[1].id = <<"new", 2>>
    /\ images[2].file = FileA
    /\ images[2].id = <<"new", 1>>

\* C38: after every change of the collection imagesToDelete holds the ids of
\* the loaded rows of product_images that the collection no longer has, each
\* once, and never 'featured-existing', an id that starts with new- or
\* video-, or the id of an entry the collection holds.
C38_ImagesToDelete ==
    [][/\ \A i, j \in DOMAIN imagesToDelete' :
              imagesToDelete'[i] = imagesToDelete'[j] => i = j
       /\ \A i \in DOMAIN imagesToDelete' :
              /\ imagesToDelete'[i][1] = "row"
              /\ imagesToDelete'[i] \notin IdsOf(images')
       /\ \A id \in IdsOf(images) \ IdsOf(images') :
              id[1] = "row" => id \in Range(imagesToDelete')]_vars

\* C39: the featured_image_url a save writes is never a blob url: it is the
\* remote url of the featured entry, the url the upload of the file of the
\* featured entry gave, or empty when no entry is featured, also when the
\* upload of the featured file gives nothing.
C39_FeaturedUrlPersistent ==
    [][\A uploads \in [DOMAIN images -> UploadOutcomes], failing \in SUBSET Requests :
           (onSubmit(uploads, failing) /\ "products.update" \notin failing) =>
               LET f == FindFeatured(images)
                   written == database'.featured_image_url
               IN  /\ written # <<>> => written[1] # "blob"
                   /\ f = 0 => written = <<>>
                   /\ (f # 0 /\ images[f].file = NoFile) => written = images[f].url
                   /\ (f # 0 /\ images[f].file # NoFile) =>
                          written = UploadedUrl(images[f].file)]_vars

\* the url under which the database holds an entry: its remote url, or the
\* url the upload of its file gives
PersistentUrl(m) == IF m.file = NoFile THEN m.url ELSE UploadedUrl(m.file)

\* C40: after a save that ends without an error every entry of the
\* collection is in the database: the featured entry as featured_image_url
\* and every other entry as a row of product_images, also a seeded entry
\* that lost the featured flag and an entry whose upload gave no url.
C40_SavePersistsAll ==
    [][\A uploads \in [DOMAIN images -> UploadOutcomes] :
           onSubmit(uploads, {}) =>
               \A i \in DOMAIN images :
                   IF i = FindFeatured(images)
                   THEN database'.featured_image_url = PersistentUrl(images[i])
                   ELSE \E r \in Range(database'.product_images) :
                            r.url = PersistentUrl(images[i])]_vars

====
